---- MODULE Spec2Model ----
(***************************************************************************)
(* A model of the stagger ID3v2 tag library: the primitive codecs          *)
(* (syncsafe integers, unsynchronisation), and the tag read / encode       *)
(* pipeline (frame merge, version conversion, padding).                    *)
(*                                                                         *)
(* Bytes are naturals 0..255, byte strings are sequences of bytes.         *)
(* An operation that raises is modelled by a result record with            *)
(* ok = FALSE and the exception's class name in err.                       *)
(***************************************************************************)
EXTENDS Integers, Sequences, FiniteSets, TLC

\* ------------------------------------------------------------------------
\* Bounds of the model
\* ------------------------------------------------------------------------
MaxLen == 4            \* longest byte string fed to the primitive codecs
MaxWidth == 4          \* largest syncsafe width
MaxSyncValue == 300    \* syncsafe values 0..MaxSyncValue are all tried
MaxFrames == 2         \* most frames in an input tag
HintBig == 500         \* the size hint that leaves room for padding
MaxPatterns == 3       \* most patterns in a frame order
MaxFileLen == 4        \* most bytes in a file handed to replace_chunk
BlockLen == 4          \* statements in a suppress_interrupt block
MaxSignals == 3        \* most SIGINTs sent to the process

\* Byte values fed to the codecs: the boundaries of every test the code
\* makes on a byte (== 0x00, & 0xE0, > 127, == 0xFF).
ByteSamples == {0, 1, 31, 32, 127, 128, 224, 255}

\* ------------------------------------------------------------------------
\* Helpers
\* ------------------------------------------------------------------------
RECURSIVE BitAnd(_, _)
BitAnd(a, b) ==
    IF a = 0 \/ b = 0 THEN 0
    ELSE (IF a % 2 = 1 /\ b % 2 = 1 THEN 1 ELSE 0) + 2 * BitAnd(a \div 2, b \div 2)

RECURSIVE Pow2(_)
Pow2(n) == IF n = 0 THEN 1 ELSE 2 * Pow2(n - 1)

Reverse(s) == [i \in 1..Len(s) |-> s[Len(s) + 1 - i]]

Zeros(n) == [i \in 1..n |-> 0]

Abs(n) == IF n < 0 THEN -n ELSE n

SeqsUpTo(S, n) == UNION {[1..k -> S] : k \in 0..n}

\* F applied to the value of v, which is computed once
With(v, F(_)) == CHOOSE r \in {F(x) : x \in {v}} : TRUE

Ok(bytes, num) == [ok |-> TRUE, val |-> bytes, num |-> num, err |-> ""]
Raise(e) == [ok |-> FALSE, val |-> <<>>, num |-> 0, err |-> e]

\* ------------------------------------------------------------------------
\* conversion.py: Syncsafe
\* ------------------------------------------------------------------------
\* a variant of Syncsafe.decode that accepts every byte
RECURSIVE Syncsafe_decode_nocheck_from(_, _, _)
Syncsafe_decode_nocheck_from(data, i, value) ==
    IF i > Len(data) THEN Ok(<<>>, value)
    ELSE Syncsafe_decode_nocheck_from(data, i + 1, value * 128 + data[i])

\* Syncsafe.decode: fold the bytes, raising at the first byte > 127.
RECURSIVE Syncsafe_decode_from(_, _, _)
Syncsafe_decode_from(data, i, value) ==
    IF i > Len(data) THEN Ok(<<>>, value)
    ELSE IF data[i] > 127 THEN Raise("ValueError")
    ELSE Syncsafe_decode_from(data, i + 1, value * 128 + data[i])

Syncsafe_decode(data) == Syncsafe_decode_from(data, 1, 0)

\* the "while i:" loop of Syncsafe.encode: 7-bit digits, least significant first
RECURSIVE Syncsafe_digits(_)
Syncsafe_digits(i) ==
    IF i = 0 THEN <<>> ELSE <<BitAnd(i, 127)>> \o Syncsafe_digits(i \div 128)

\* a variant that forgets data.reverse()
Syncsafe_encode_noreverse(i, width) ==
    LET data == Syncsafe_digits(i) IN
    IF i < 0 THEN Raise("ValueError")
    ELSE IF width > 0 /\ Len(data) > width THEN Raise("ValueError")
    ELSE Ok(IF Len(data) < Abs(width)
               THEN data \o Zeros(Abs(width) - Len(data)) ELSE data, 0)

Syncsafe_encode(i, width) ==
    IF i < 0 THEN Raise("ValueError")
    ELSE LET data == Syncsafe_digits(i) IN
         IF width > 0 /\ Len(data) > width THEN Raise("ValueError")
         ELSE LET padded == IF Len(data) < Abs(width)
                               THEN data \o Zeros(Abs(width) - Len(data))
                               ELSE data
              IN Ok(Reverse(padded), 0)

\* ------------------------------------------------------------------------
\* conversion.py: Int8
\* ------------------------------------------------------------------------
RECURSIVE Int8_decode_from(_, _, _)
Int8_decode_from(data, i, value) ==
    IF i > Len(data) THEN value
    ELSE Int8_decode_from(data, i + 1, value * 256 + data[i])

Int8_decode(data) == Int8_decode_from(data, 1, 0)

RECURSIVE Int8_digits(_)
Int8_digits(i) ==
    IF i = 0 THEN <<>> ELSE <<BitAnd(i, 255)>> \o Int8_digits(i \div 256)

Int8_encode(i, width) ==
    IF i < 0 THEN Raise("ValueError")
    ELSE LET data == Int8_digits(i) IN
         IF width > 0 /\ Len(data) > width THEN Raise("ValueError")
         ELSE LET padded == IF Len(data) < Abs(width)
                               THEN data \o Zeros(Abs(width) - Len(data))
                               ELSE data
              IN Ok(Reverse(padded), 0)

\* ------------------------------------------------------------------------
\* conversion.py: Unsync
\* ------------------------------------------------------------------------
\* Unsync.gen_encode; sync is "the previous byte was 0xFF"
RECURSIVE Unsync_gen_encode(_, _, _)
Unsync_gen_encode(data, i, sync) ==
    IF i > Len(data) THEN (IF sync THEN <<0>> ELSE <<>>)
    ELSE LET b == data[i] IN
         (IF sync /\ (b = 0 \/ BitAnd(b, 224) # 0) THEN <<0>> ELSE <<>>)
         \o <<b>> \o Unsync_gen_encode(data, i + 1, b = 255)

Unsync_encode(data) == Unsync_gen_encode(data, 1, FALSE)

\* a variant of gen_decode that forgets to clear sync after a dropped 0x00
RECURSIVE Unsync_gen_decode_sticky(_, _, _)
Unsync_gen_decode_sticky(data, i, sync) ==
    IF i > Len(data) THEN <<>>
    ELSE LET b == data[i] IN
         (IF ~(sync /\ b = 0) THEN <<b>> ELSE <<>>)
         \o Unsync_gen_decode_sticky(data, i + 1, b = 255 \/ (sync /\ b = 0))

\* Unsync.gen_decode (the warning it may emit has no effect on the bytes)
RECURSIVE Unsync_gen_decode(_, _, _)
Unsync_gen_decode(data, i, sync) ==
    IF i > Len(data) THEN <<>>
    ELSE LET b == data[i] IN
         (IF ~(sync /\ b = 0) THEN <<b>> ELSE <<>>)
         \o Unsync_gen_decode(data, i + 1, b = 255)

Unsync_decode(data) == Unsync_gen_decode(data, 1, FALSE)

\* ------------------------------------------------------------------------
\* frames.py / id3.py: the frame classes
\* ------------------------------------------------------------------------
\* A field spec of a _framespec tuple: its class, its name, its width
\* (IntegerSpec, SimpleStringSpec, LanguageSpec) and its inner spec(s).
FS(k, n, w, inner) == [k |-> k, n |-> n, w |-> w, inner |-> inner]

\* A class statement: the class name, the frame id its instances get by
\* default (the class name in ASCII), its first base class, the _version,
\* _allow_duplicates and _to_version its body sets (0 / "inherit" when the
\* body does not set them), the line of the statement, and the _framespec
\* its body sets (<<>> when it sets none).
Cls(name, frameid, base, version, dup, conv, line, framespec) ==
    [name |-> name, frameid |-> frameid, base |-> base, version |-> version,
     dup |-> dup, conv |-> conv, line |-> line, framespec |-> framespec]

\* the classes of frames.py
FrameClassDecls == <<
    Cls("Frame", <<>>, "object", 0, "no", "Frame", 13, <<>>),
    Cls("UnknownFrame", <<>>, "Frame", 0, "inherit", "inherit", 167,
        <<FS("BinaryDataSpec", "data", 0, "none")>>),
    Cls("ErrorFrame", <<>>, "Frame", 0, "inherit", "inherit", 170,
        <<FS("BinaryDataSpec", "data", 0, "none")>>),
    Cls("TextFrame", <<>>, "Frame", 0, "inherit", "inherit", 186,
        <<FS("EncodingSpec", "encoding", 0, "none"),
          FS("SequenceSpec", "text", 0, "EncodedStringSpec")>>),
    Cls("URLFrame", <<>>, "Frame", 0, "inherit", "inherit", 226,
        <<FS("URLStringSpec", "url", 0, "none")>>),
    Cls("CreditsFrame", <<>>, "Frame", 0, "inherit", "inherit", 231,
        <<FS("EncodingSpec", "encoding", 0, "none"),
          FS("MultiSpec", "people", 0, "EncodedStringSpec+EncodedStringSpec")>>)
>>

\* the class statements of id3.py, in the order the module executes them
ClassDecls == <<
    Cls("UFID", <<85, 70, 73, 68>>, "Frame", 0, "yes", "inherit", 16,
        <<FS("NullTerminatedStringSpec", "owner", 0, "none"),
           FS("BinaryDataSpec", "data", 0, "none")>>),
    Cls("TIT1", <<84, 73, 84, 49>>, "TextFrame", 0, "inherit", "inherit", 21, <<>>),
    Cls("TIT2", <<84, 73, 84, 50>>, "TextFrame", 0, "inherit", "inherit", 24, <<>>),
    Cls("TIT3", <<84, 73, 84, 51>>, "TextFrame", 0, "inherit", "inherit", 27, <<>>),
    Cls("TALB", <<84, 65, 76, 66>>, "TextFrame", 0, "inherit", "inherit", 30, <<>>),
    Cls("TOAL", <<84, 79, 65, 76>>, "TextFrame", 0, "inherit", "inherit", 33, <<>>),
    Cls("TRCK", <<84, 82, 67, 75>>, "TextFrame", 0, "inherit", "inherit", 36, <<>>),
    Cls("TPOS", <<84, 80, 79, 83>>, "TextFrame", 0, "inherit", "inherit", 40, <<>>),
    Cls("TSST", <<84, 83, 83, 84>>, "TextFrame", 4, "inherit", "inherit", 44, <<>>),
    Cls("TSRC", <<84, 83, 82, 67>>, "TextFrame", 0, "inherit", "inherit", 48, <<>>),
    Cls("TPE1", <<84, 80, 69, 49>>, "TextFrame", 0, "inherit", "inherit", 53, <<>>),
    Cls("TPE2", <<84, 80, 69, 50>>, "TextFrame", 0, "inherit", "inherit", 56, <<>>),
    Cls("TPE3", <<84, 80, 69, 51>>, "TextFrame", 0, "inherit", "inherit", 59, <<>>),
    Cls("TPE4", <<84, 80, 69, 52>>, "TextFrame", 0, "inherit", "inherit", 62, <<>>),
    Cls("TOPE", <<84, 79, 80, 69>>, "TextFrame", 0, "inherit", "inherit", 65, <<>>),
    Cls("TEXT", <<84, 69, 88, 84>>, "TextFrame", 0, "inherit", "inherit", 68, <<>>),
    Cls("TOLY", <<84, 79, 76, 89>>, "TextFrame", 0, "inherit", "inherit", 69, <<>>),
    Cls("TCOM", <<84, 67, 79, 77>>, "TextFrame", 0, "inherit", "inherit", 70, <<>>),
    Cls("TMCL", <<84, 77, 67, 76>>, "CreditsFrame", 4, "inherit", "inherit", 72, <<>>),
    Cls("TIPL", <<84, 73, 80, 76>>, "CreditsFrame", 4, "inherit", "inherit", 76, <<>>),
    Cls("TENC", <<84, 69, 78, 67>>, "TextFrame", 0, "inherit", "inherit", 80, <<>>),
    Cls("TBPM", <<84, 66, 80, 77>>, "TextFrame", 0, "inherit", "inherit", 86, <<>>),
    Cls("TLEN", <<84, 76, 69, 78>>, "TextFrame", 0, "inherit", "inherit", 89, <<>>),
    Cls("TKEY", <<84, 75, 69, 89>>, "TextFrame", 0, "inherit", "inherit", 92, <<>>),
    Cls("TLAN", <<84, 76, 65, 78>>, "TextFrame", 0, "inherit", "inherit", 95, <<>>),
    Cls("TCON", <<84, 67, 79, 78>>, "TextFrame", 0, "inherit", "inherit", 98, <<>>),
    Cls("TFLT", <<84, 70, 76, 84>>, "TextFrame", 0, "inherit", "inherit", 105, <<>>),
    Cls("TMED", <<84, 77, 69, 68>>, "TextFrame", 0, "inherit", "inherit", 106, <<>>),
    Cls("TMOO", <<84, 77, 79, 79>>, "TextFrame", 4, "inherit", "inherit", 107, <<>>),
    Cls("TCOP", <<84, 67, 79, 80>>, "TextFrame", 0, "inherit", "inherit", 114, <<>>),
    Cls("TPRO", <<84, 80, 82, 79>>, "TextFrame", 4, "inherit", "inherit", 115, <<>>),
    Cls("TPUB", <<84, 80, 85, 66>>, "TextFrame", 0, "inherit", "inherit", 119, <<>>),
    Cls("TOWN", <<84, 79, 87, 78>>, "TextFrame", 0, "inherit", "inherit", 120, <<>>),
    Cls("TRSN", <<84, 82, 83, 78>>, "TextFrame", 0, "inherit", "inherit", 121, <<>>),
    Cls("TRSO", <<84, 82, 83, 79>>, "TextFrame", 0, "inherit", "inherit", 122, <<>>),
    Cls("TOFN", <<84, 79, 70, 78>>, "TextFrame", 0, "inherit", "inherit", 128, <<>>),
    Cls("TDLY", <<84, 68, 76, 89>>, "TextFrame", 0, "inherit", "inherit", 129, <<>>),
    Cls("TDEN", <<84, 68, 69, 78>>, "TextFrame", 4, "inherit", "inherit", 132, <<>>),
    Cls("TDOR", <<84, 68, 79, 82>>, "TextFrame", 4, "inherit", "inherit", 137, <<>>),
    Cls("TDRC", <<84, 68, 82, 67>>, "TextFrame", 4, "inherit", "inherit", 142, <<>>),
    Cls("TDRL", <<84, 68, 82, 76>>, "TextFrame", 4, "inherit", "inherit", 147, <<>>),
    Cls("TDTG", <<84, 68, 84, 71>>, "TextFrame", 4, "inherit", "inherit", 152, <<>>),
    Cls("TSSE", <<84, 83, 83, 69>>, "TextFrame", 0, "inherit", "inherit", 157, <<>>),
    Cls("TSOA", <<84, 83, 79, 65>>, "TextFrame", 4, "inherit", "inherit", 160, <<>>),
    Cls("TSOP", <<84, 83, 79, 80>>, "TextFrame", 4, "inherit", "inherit", 164, <<>>),
    Cls("TSOT", <<84, 83, 79, 84>>, "TextFrame", 4, "inherit", "inherit", 168, <<>>),
    Cls("TXXX", <<84, 88, 88, 88>>, "Frame", 0, "yes", "inherit", 175,
        <<FS("EncodingSpec", "encoding", 0, "none"),
           FS("EncodedStringSpec", "description", 0, "none"),
           FS("EncodedStringSpec", "value", 0, "none")>>),
    Cls("WCOM", <<87, 67, 79, 77>>, "URLFrame", 0, "yes", "inherit", 185, <<>>),
    Cls("WCOP", <<87, 67, 79, 80>>, "URLFrame", 0, "inherit", "inherit", 189, <<>>),
    Cls("WOAF", <<87, 79, 65, 70>>, "URLFrame", 0, "inherit", "inherit", 192, <<>>),
    Cls("WOAR", <<87, 79, 65, 82>>, "URLFrame", 0, "yes", "inherit", 195, <<>>),
    Cls("WOAS", <<87, 79, 65, 83>>, "URLFrame", 0, "inherit", "inherit", 199, <<>>),
    Cls("WORS", <<87, 79, 82, 83>>, "URLFrame", 0, "inherit", "inherit", 202, <<>>),
    Cls("WPAY", <<87, 80, 65, 89>>, "URLFrame", 0, "inherit", "inherit", 205, <<>>),
    Cls("WPUB", <<87, 80, 85, 66>>, "URLFrame", 0, "inherit", "inherit", 208, <<>>),
    Cls("WXXX", <<87, 88, 88, 88>>, "Frame", 0, "yes", "inherit", 211,
        <<FS("EncodingSpec", "encoding", 0, "none"),
           FS("EncodedStringSpec", "description", 0, "none"),
           FS("URLStringSpec", "url", 0, "none")>>),
    Cls("MCDI", <<77, 67, 68, 73>>, "Frame", 0, "inherit", "inherit", 220,
        <<FS("BinaryDataSpec", "cd_toc", 0, "none")>>),
    Cls("ETCO", <<69, 84, 67, 79>>, "Frame", 0, "inherit", "inherit", 224,
        <<FS("ByteSpec", "format", 0, "none"),
           FS("MultiSpec", "events", 0, "ByteSpec+IntegerSpec")>>),
    Cls("MLLT", <<77, 76, 76, 84>>, "Frame", 0, "inherit", "inherit", 231,
        <<FS("IntegerSpec", "frames", 2, "none"),
           FS("IntegerSpec", "bytes", 3, "none"),
           FS("IntegerSpec", "milliseconds", 3, "none"),
           FS("ByteSpec", "bits_for_bytes", 0, "none"),
           FS("ByteSpec", "bits_for_milliseconds", 0, "none"),
           FS("BinaryDataSpec", "data", 0, "none")>>),
    Cls("SYTC", <<83, 89, 84, 67>>, "Frame", 0, "inherit", "inherit", 240,
        <<FS("ByteSpec", "format", 0, "none"),
           FS("BinaryDataSpec", "data", 0, "none")>>),
    Cls("USLT", <<85, 83, 76, 84>>, "Frame", 0, "yes", "inherit", 246,
        <<FS("EncodingSpec", "encoding", 0, "none"),
           FS("LanguageSpec", "lang", 3, "none"),
           FS("EncodedStringSpec", "desc", 0, "none"),
           FS("EncodedFullTextSpec", "text", 0, "none")>>),
    Cls("SYLT", <<83, 89, 76, 84>>, "Frame", 0, "yes", "inherit", 253,
        <<FS("EncodingSpec", "encoding", 0, "none"),
           FS("LanguageSpec", "lang", 3, "none"),
           FS("ByteSpec", "format", 0, "none"),
           FS("ByteSpec", "type", 0, "none"),
           FS("EncodedStringSpec", "desc", 0, "none"),
           FS("MultiSpec", "data", 0, "EncodedFullTextSpec+IntegerSpec")>>),
    Cls("COMM", <<67, 79, 77, 77>>, "Frame", 0, "yes", "inherit", 263,
        <<FS("EncodingSpec", "encoding", 0, "none"),
           FS("LanguageSpec", "lang", 3, "none"),
           FS("EncodedStringSpec", "desc", 0, "none"),
           FS("EncodedFullTextSpec", "text", 0, "none")>>),
    Cls("RVA2", <<82, 86, 65, 50>>, "Frame", 0, "yes", "inherit", 269,
        <<FS("NullTerminatedStringSpec", "desc", 0, "none"),
           FS("MultiSpec", "adjustment", 0, "ByteSpec+IntegerSpec+VarIntSpec")>>),
    Cls("EQU2", <<69, 81, 85, 50>>, "Frame", 0, "yes", "inherit", 279,
        <<FS("ByteSpec", "method", 0, "none"),
           FS("NullTerminatedStringSpec", "desc", 0, "none"),
           FS("MultiSpec", "adjustments", 0, "IntegerSpec+SignedIntegerSpec")>>),
    Cls("RVRB", <<82, 86, 82, 66>>, "Frame", 0, "inherit", "inherit", 289,
        <<FS("IntegerSpec", "left", 2, "none"),
           FS("IntegerSpec", "right", 2, "none"),
           FS("ByteSpec", "bounce_left", 0, "none"),
           FS("ByteSpec", "bounce_right", 0, "none"),
           FS("ByteSpec", "feedback_ltl", 0, "none"),
           FS("ByteSpec", "feedback_ltr", 0, "none"),
           FS("ByteSpec", "feedback_rtr", 0, "none"),
           FS("ByteSpec", "feedback_rtl", 0, "none"),
           FS("ByteSpec", "premix_ltr", 0, "none"),
           FS("ByteSpec", "premix_rtl", 0, "none")>>),
    Cls("APIC", <<65, 80, 73, 67>>, "Frame", 0, "yes", "APIC", 300,
        <<FS("EncodingSpec", "encoding", 0, "none"),
           FS("NullTerminatedStringSpec", "mime", 0, "none"),
           FS("ByteSpec", "type", 0, "none"),
           FS("EncodedStringSpec", "desc", 0, "none"),
           FS("BinaryDataSpec", "data", 0, "none")>>),
    Cls("GEOB", <<71, 69, 79, 66>>, "Frame", 0, "yes", "inherit", 329,
        <<FS("EncodingSpec", "encoding", 0, "none"),
           FS("NullTerminatedStringSpec", "mime", 0, "none"),
           FS("EncodedStringSpec", "filename", 0, "none"),
           FS("EncodedStringSpec", "desc", 0, "none"),
           FS("BinaryDataSpec", "data", 0, "none")>>),
    Cls("PCNT", <<80, 67, 78, 84>>, "Frame", 0, "inherit", "inherit", 338,
        <<FS("IntegerSpec", "count", 4, "none")>>),
    Cls("POPM", <<80, 79, 80, 77>>, "Frame", 0, "yes", "inherit", 342,
        <<FS("NullTerminatedStringSpec", "email", 0, "none"),
           FS("ByteSpec", "rating", 0, "none"),
           FS("IntegerSpec", "count", 4, "none")>>),
    Cls("RBUF", <<82, 66, 85, 70>>, "Frame", 0, "inherit", "inherit", 349,
        <<FS("IntegerSpec", "size", 4, "none"),
           FS("ByteSpec", "info", 0, "none"),
           FS("IntegerSpec", "offset", 4, "none")>>),
    Cls("AENC", <<65, 69, 78, 67>>, "Frame", 0, "yes", "inherit", 358,
        <<FS("NullTerminatedStringSpec", "owner", 0, "none"),
           FS("IntegerSpec", "preview_start", 2, "none"),
           FS("IntegerSpec", "preview_length", 2, "none"),
           FS("BinaryDataSpec", "data", 0, "none")>>),
    Cls("LINK", <<76, 73, 78, 75>>, "Frame", 0, "yes", "inherit", 368,
        <<FS("SimpleStringSpec", "linked_frameid", 4, "none"),
           FS("NullTerminatedStringSpec", "url", 0, "none"),
           FS("BinaryDataSpec", "data", 0, "none")>>),
    Cls("POSS", <<80, 79, 83, 83>>, "Frame", 0, "inherit", "inherit", 378,
        <<FS("ByteSpec", "format", 0, "none"),
           FS("IntegerSpec", "position", 4, "none")>>),
    Cls("USER", <<85, 83, 69, 82>>, "Frame", 0, "yes", "inherit", 385,
        <<FS("EncodingSpec", "encoding", 0, "none"),
           FS("LanguageSpec", "lang", 3, "none"),
           FS("EncodedStringSpec", "text", 0, "none")>>),
    Cls("OWNE", <<79, 87, 78, 69>>, "Frame", 0, "inherit", "inherit", 393,
        <<FS("EncodingSpec", "encoding", 0, "none"),
           FS("NullTerminatedStringSpec", "price", 0, "none"),
           FS("SimpleStringSpec", "date", 8, "none"),
           FS("NullTerminatedStringSpec", "seller", 0, "none")>>),
    Cls("COMR", <<67, 79, 77, 82>>, "Frame", 0, "yes", "inherit", 402,
        <<FS("EncodingSpec", "encoding", 0, "none"),
           FS("NullTerminatedStringSpec", "price", 0, "none"),
           FS("NullTerminatedStringSpec", "valid", 0, "none"),
           FS("NullTerminatedStringSpec", "contact", 0, "none"),
           FS("ByteSpec", "format", 0, "none"),
           FS("EncodedStringSpec", "seller", 0, "none"),
           FS("EncodedStringSpec", "desc", 0, "none"),
           FS("NullTerminatedStringSpec", "mime", 0, "none"),
           FS("BinaryDataSpec", "logo", 0, "none")>>),
    Cls("ENCR", <<69, 78, 67, 82>>, "Frame", 0, "yes", "inherit", 417,
        <<FS("NullTerminatedStringSpec", "owner", 0, "none"),
           FS("ByteSpec", "symbol", 0, "none"),
           FS("BinaryDataSpec", "data", 0, "none")>>),
    Cls("GRID", <<71, 82, 73, 68>>, "Frame", 0, "yes", "inherit", 427,
        <<FS("NullTerminatedStringSpec", "owner", 0, "none"),
           FS("ByteSpec", "symbol", 0, "none"),
           FS("BinaryDataSpec", "data", 0, "none")>>),
    Cls("PRIV", <<80, 82, 73, 86>>, "Frame", 0, "yes", "inherit", 436,
        <<FS("NullTerminatedStringSpec", "owner", 0, "none"),
           FS("BinaryDataSpec", "data", 0, "none")>>),
    Cls("SIGN", <<83, 73, 71, 78>>, "Frame", 4, "yes", "inherit", 442,
        <<FS("ByteSpec", "group", 0, "none"),
           FS("BinaryDataSpec", "data", 0, "none")>>),
    Cls("SEEK", <<83, 69, 69, 75>>, "Frame", 4, "inherit", "inherit", 451,
        <<FS("IntegerSpec", "offset", 4, "none")>>),
    Cls("ASPI", <<65, 83, 80, 73>>, "Frame", 4, "inherit", "inherit", 458,
        <<FS("IntegerSpec", "S", 4, "none"),
           FS("IntegerSpec", "L", 4, "none"),
           FS("IntegerSpec", "N", 2, "none"),
           FS("ByteSpec", "b", 0, "none"),
           FS("ASPISpec", "Fi", 0, "none")>>),
    Cls("TYER", <<84, 89, 69, 82>>, "TextFrame", 3, "inherit", "inherit", 472, <<>>),
    Cls("TDAT", <<84, 68, 65, 84>>, "TextFrame", 3, "inherit", "inherit", 479, <<>>),
    Cls("TIME", <<84, 73, 77, 69>>, "TextFrame", 3, "inherit", "inherit", 486, <<>>),
    Cls("TORY", <<84, 79, 82, 89>>, "TextFrame", 3, "inherit", "inherit", 493, <<>>),
    Cls("TRDA", <<84, 82, 68, 65>>, "TextFrame", 3, "inherit", "inherit", 499, <<>>),
    Cls("TSIZ", <<84, 83, 73, 90>>, "TextFrame", 3, "inherit", "inherit", 505, <<>>),
    Cls("IPLS", <<73, 80, 76, 83>>, "CreditsFrame", 3, "inherit", "inherit", 512,
        <<FS("BinaryDataSpec", "data", 0, "none")>>),
    Cls("EQUA", <<69, 81, 85, 65>>, "Frame", 3, "inherit", "inherit", 521,
        <<FS("ByteSpec", "bits", 0, "none"),
           FS("BinaryDataSpec", "data", 0, "none")>>),
    Cls("RVAD", <<82, 86, 65, 68>>, "Frame", 3, "inherit", "inherit", 530,
        <<FS("BinaryDataSpec", "data", 0, "none")>>),
    Cls("UFI", <<85, 70, 73>>, "UFID", 0, "inherit", "inherit", 541, <<>>),
    Cls("TT1", <<84, 84, 49>>, "TIT1", 0, "inherit", "inherit", 542, <<>>),
    Cls("TT2", <<84, 84, 50>>, "TIT2", 0, "inherit", "inherit", 543, <<>>),
    Cls("TT3", <<84, 84, 51>>, "TIT3", 0, "inherit", "inherit", 544, <<>>),
    Cls("TP1", <<84, 80, 49>>, "TPE1", 0, "inherit", "inherit", 545, <<>>),
    Cls("TP2", <<84, 80, 50>>, "TPE2", 0, "inherit", "inherit", 546, <<>>),
    Cls("TP3", <<84, 80, 51>>, "TPE3", 0, "inherit", "inherit", 547, <<>>),
    Cls("TP4", <<84, 80, 52>>, "TPE4", 0, "inherit", "inherit", 548, <<>>),
    Cls("TCM", <<84, 67, 77>>, "TCOM", 0, "inherit", "inherit", 549, <<>>),
    Cls("TXT", <<84, 88, 84>>, "TEXT", 0, "inherit", "inherit", 550, <<>>),
    Cls("TLA", <<84, 76, 65>>, "TLAN", 0, "inherit", "inherit", 551, <<>>),
    Cls("TCO", <<84, 67, 79>>, "TCON", 0, "inherit", "inherit", 552, <<>>),
    Cls("TAL", <<84, 65, 76>>, "TALB", 0, "inherit", "inherit", 553, <<>>),
    Cls("TPA", <<84, 80, 65>>, "TPOS", 0, "inherit", "inherit", 554, <<>>),
    Cls("TRK", <<84, 82, 75>>, "TRCK", 0, "inherit", "inherit", 555, <<>>),
    Cls("TRC", <<84, 82, 67>>, "TSRC", 0, "inherit", "inherit", 556, <<>>),
    Cls("TYE", <<84, 89, 69>>, "TYER", 0, "inherit", "inherit", 557, <<>>),
    Cls("TDA", <<84, 68, 65>>, "TDAT", 0, "inherit", "inherit", 558, <<>>),
    Cls("TIM", <<84, 73, 77>>, "TIME", 0, "inherit", "inherit", 559, <<>>),
    Cls("TRD", <<84, 82, 68>>, "TRDA", 0, "inherit", "inherit", 560, <<>>),
    Cls("TMT", <<84, 77, 84>>, "TMED", 0, "inherit", "inherit", 561, <<>>),
    Cls("TFT", <<84, 70, 84>>, "TFLT", 0, "inherit", "inherit", 562, <<>>),
    Cls("TBP", <<84, 66, 80>>, "TBPM", 0, "inherit", "inherit", 563, <<>>),
    Cls("TCR", <<84, 67, 82>>, "TCOP", 0, "inherit", "inherit", 564, <<>>),
    Cls("TPB", <<84, 80, 66>>, "TPUB", 0, "inherit", "inherit", 565, <<>>),
    Cls("TEN", <<84, 69, 78>>, "TENC", 0, "inherit", "inherit", 566, <<>>),
    Cls("TSS", <<84, 83, 83>>, "TSSE", 0, "inherit", "inherit", 567, <<>>),
    Cls("TOF", <<84, 79, 70>>, "TOFN", 0, "inherit", "inherit", 568, <<>>),
    Cls("TLE", <<84, 76, 69>>, "TLEN", 0, "inherit", "inherit", 569, <<>>),
    Cls("TSI", <<84, 83, 73>>, "TSIZ", 0, "inherit", "inherit", 570, <<>>),
    Cls("TDY", <<84, 68, 89>>, "TDLY", 0, "inherit", "inherit", 571, <<>>),
    Cls("TKE", <<84, 75, 69>>, "TKEY", 0, "inherit", "inherit", 572, <<>>),
    Cls("TOT", <<84, 79, 84>>, "TOAL", 0, "inherit", "inherit", 573, <<>>),
    Cls("TOA", <<84, 79, 65>>, "TOPE", 0, "inherit", "inherit", 574, <<>>),
    Cls("TOL", <<84, 79, 76>>, "TOLY", 0, "inherit", "inherit", 575, <<>>),
    Cls("TOR", <<84, 79, 82>>, "TORY", 0, "inherit", "inherit", 576, <<>>),
    Cls("TXX", <<84, 88, 88>>, "TXXX", 0, "inherit", "inherit", 578, <<>>),
    Cls("WAF", <<87, 65, 70>>, "WOAF", 0, "inherit", "inherit", 580, <<>>),
    Cls("WAR", <<87, 65, 82>>, "WOAR", 0, "inherit", "inherit", 581, <<>>),
    Cls("WAS", <<87, 65, 83>>, "WOAS", 0, "inherit", "inherit", 582, <<>>),
    Cls("WCM", <<87, 67, 77>>, "WCOM", 0, "inherit", "inherit", 583, <<>>),
    Cls("WCP", <<87, 67, 80>>, "WCOP", 0, "inherit", "inherit", 584, <<>>),
    Cls("WPB", <<87, 80, 66>>, "WPUB", 0, "inherit", "inherit", 585, <<>>),
    Cls("WXX", <<87, 88, 88>>, "WXXX", 0, "inherit", "inherit", 587, <<>>),
    Cls("IPL", <<73, 80, 76>>, "IPLS", 0, "inherit", "inherit", 589, <<>>),
    Cls("MCI", <<77, 67, 73>>, "MCDI", 0, "inherit", "inherit", 591, <<>>),
    Cls("ETC", <<69, 84, 67>>, "ETCO", 0, "inherit", "inherit", 592, <<>>),
    Cls("MLL", <<77, 76, 76>>, "MLLT", 0, "inherit", "inherit", 593, <<>>),
    Cls("STC", <<83, 84, 67>>, "SYTC", 0, "inherit", "inherit", 594, <<>>),
    Cls("ULT", <<85, 76, 84>>, "USLT", 0, "inherit", "inherit", 595, <<>>),
    Cls("SLT", <<83, 76, 84>>, "SYLT", 0, "inherit", "inherit", 596, <<>>),
    Cls("COM", <<67, 79, 77>>, "COMM", 0, "inherit", "inherit", 598, <<>>),
    Cls("RVA", <<82, 86, 65>>, "RVAD", 0, "inherit", "inherit", 600, <<>>),
    Cls("EQU", <<69, 81, 85>>, "EQUA", 0, "inherit", "inherit", 601, <<>>),
    Cls("REV", <<82, 69, 86>>, "RVRB", 0, "inherit", "inherit", 602, <<>>),
    Cls("PIC", <<80, 73, 67>>, "Frame", 2, "yes", "PIC", 604,
        <<FS("EncodingSpec", "encoding", 0, "none"),
           FS("SimpleStringSpec", "format", 3, "none"),
           FS("ByteSpec", "type", 0, "none"),
           FS("EncodedStringSpec", "desc", 0, "none"),
           FS("BinaryDataSpec", "data", 0, "none")>>),
    Cls("GEO", <<71, 69, 79>>, "GEOB", 0, "inherit", "inherit", 639, <<>>),
    Cls("CNT", <<67, 78, 84>>, "PCNT", 0, "inherit", "inherit", 640, <<>>),
    Cls("POP", <<80, 79, 80>>, "POPM", 0, "inherit", "inherit", 641, <<>>),
    Cls("BUF", <<66, 85, 70>>, "RBUF", 0, "inherit", "inherit", 643, <<>>),
    Cls("CRM", <<67, 82, 77>>, "Frame", 2, "inherit", "inherit", 644,
        <<FS("NullTerminatedStringSpec", "owner", 0, "none"),
           FS("NullTerminatedStringSpec", "content", 0, "none"),
           FS("BinaryDataSpec", "data", 0, "none")>>),
    Cls("CRA", <<67, 82, 65>>, "AENC", 0, "inherit", "inherit", 653, <<>>),
    Cls("LNK", <<76, 78, 75>>, "Frame", 2, "inherit", "inherit", 655,
        <<FS("SimpleStringSpec", "frameid", 3, "none"),
           FS("NullTerminatedStringSpec", "url", 0, "none"),
           FS("BinaryDataSpec", "data", 0, "none")>>),
    Cls("TCMP", <<84, 67, 77, 80>>, "TextFrame", 0, "inherit", "inherit", 665, <<>>),
    Cls("TCP", <<84, 67, 80>>, "TCMP", 0, "inherit", "inherit", 669, <<>>),
    Cls("TDES", <<84, 68, 69, 83>>, "TextFrame", 0, "inherit", "inherit", 671, <<>>),
    Cls("TDS", <<84, 68, 83>>, "TDES", 0, "inherit", "inherit", 674, <<>>),
    Cls("TGID", <<84, 71, 73, 68>>, "TextFrame", 0, "inherit", "inherit", 676, <<>>),
    Cls("TID", <<84, 73, 68>>, "TGID", 0, "inherit", "inherit", 679, <<>>),
    Cls("TDRL", <<84, 68, 82, 76>>, "TextFrame", 0, "inherit", "inherit", 681, <<>>),
    Cls("TDR", <<84, 68, 82>>, "TGID", 0, "inherit", "inherit", 684, <<>>),
    Cls("WFED", <<87, 70, 69, 68>>, "URLFrame", 0, "inherit", "inherit", 686, <<>>),
    Cls("WFD", <<87, 70, 68>>, "WFED", 0, "inherit", "inherit", 689, <<>>),
    Cls("TCAT", <<84, 67, 65, 84>>, "TextFrame", 0, "inherit", "inherit", 691, <<>>),
    Cls("TCT", <<84, 67, 84>>, "TCAT", 0, "inherit", "inherit", 694, <<>>),
    Cls("TKWD", <<84, 75, 87, 68>>, "TextFrame", 0, "inherit", "inherit", 696, <<>>),
    Cls("TKW", <<84, 75, 87>>, "TKWD", 0, "inherit", "inherit", 701, <<>>),
    Cls("PCST", <<80, 67, 83, 84>>, "Frame", 0, "inherit", "inherit", 703,
        <<FS("IntegerSpec", "value", 4, "none")>>),
    Cls("PCS", <<80, 67, 83>>, "PCST", 0, "inherit", "inherit", 711, <<>>)
>>

AllDecls == FrameClassDecls \o ClassDecls

AllClassNames == With(AllDecls, LAMBDA d : {d[i].name : i \in 1..Len(d)})

\* A module global is bound to the class of the last statement naming it.
LastDecl(name) ==
    With(AllDecls, LAMBDA d :
        With({i \in 1..Len(d) : d[i].name = name}, LAMBDA idx :
            d[CHOOSE i \in idx : \A j \in idx : j <= i]))

\* a variant binding a name to the class of the first statement naming it
FirstDecl(name) ==
    With(AllDecls, LAMBDA d :
        With({i \in 1..Len(d) : d[i].name = name}, LAMBDA idx :
            d[CHOOSE i \in idx : \A j \in idx : i <= j]))

\* f tabulated: its values computed once
Tabulate(f) == f @@ <<>>

ClassTable == Tabulate([n \in AllClassNames |-> LastDecl(n)])

\* is_frame_class: a Frame subclass whose name has 3 or 4 upper-case characters
is_frame_class(name) ==
    /\ name \in AllClassNames
    /\ name # "Frame"
    /\ Len(ClassTable[name].frameid) \in 3..4

FrameClassNames == {n \in AllClassNames : is_frame_class(n)}

\* the frame classes in the order globals().values() yields them: a key
\* keeps the position of its first binding
GlobalsOrder ==
    With(ClassDecls, LAMBDA d :
        With(SelectSeq([i \in 1..Len(d) |-> i],
                       LAMBDA i : \A j \in 1..(i - 1) : d[j].name # d[i].name),
             LAMBDA first : Tabulate([k \in 1..Len(first) |-> d[first[k]].name])))

\* class attribute lookup along the first base classes
RECURSIVE DeclaredVersion(_)
DeclaredVersion(name) ==
    IF name = "object" THEN 0
    ELSE With(ClassTable[name], LAMBDA c :
            IF c.version # 0 THEN c.version ELSE DeclaredVersion(c.base))

RECURSIVE AllowDuplicatesOf(_)
AllowDuplicatesOf(name) ==
    With(ClassTable[name], LAMBDA c :
        IF c.dup # "inherit" THEN c.dup = "yes" ELSE AllowDuplicatesOf(c.base))

RECURSIVE FramespecOwnerOf(_)
FramespecOwnerOf(name) ==
    With(ClassTable[name], LAMBDA c :
        IF c.framespec # <<>> \/ name = "Frame" THEN name
        ELSE FramespecOwnerOf(c.base))

RECURSIVE ToVersionOwnerOf(_)
ToVersionOwnerOf(name) ==
    With(ClassTable[name], LAMBDA c :
        IF c.conv # "inherit" THEN c.conv ELSE ToVersionOwnerOf(c.base))

\* issubclass over the class statements
RECURSIVE DeclaredSubclass(_, _)
DeclaredSubclass(name, ancestor) ==
    IF name = ancestor THEN TRUE
    ELSE IF name = "object" THEN FALSE
    ELSE DeclaredSubclass(ClassTable[name].base, ancestor)

_allow_duplicates == Tabulate([n \in AllClassNames |-> AllowDuplicatesOf(n)])
FramespecOwner == Tabulate([n \in AllClassNames |-> FramespecOwnerOf(n)])
_framespec ==
    Tabulate([n \in AllClassNames |-> ClassTable[FramespecOwnerOf(n)].framespec])
ToVersionOwner == Tabulate([n \in AllClassNames |-> ToVersionOwnerOf(n)])

\* ------------------------------------------------------------------------
\* id3.py: _register_frames
\* ------------------------------------------------------------------------
\* The loop visits the frame classes in the order of GlobalsOrder.  For the
\* class obj visited at position k it sets obj._version (2 for a
\* 3-character name, (3, 4) for a 4-character name without a _version) and,
\* when obj is a version 2 class whose first base is at that time a version
\* 3 or 4 class, asserts that the base has no _v2_frame yet and sets the
\* base's _v2_frame to obj.
PositionOf ==
    With(GlobalsOrder, LAMBDA order :
        Tabulate([n \in FrameClassNames |->
                     CHOOSE k \in 1..Len(order) : order[k] = n]))

\* the _version of a class before the loop visits it
VersionBefore(name) ==
    With(DeclaredVersion(name), LAMBDA v : IF v = 0 THEN {} ELSE {v})

\* the _version the loop gives the class it visits
VersionSet(obj) ==
    With(Len(ClassTable[obj].frameid), LAMBDA n :
    With(VersionBefore(obj), LAMBDA before :
        IF n = 3 THEN {2}
        ELSE IF n = 4 /\ before = {} THEN {3, 4}
        ELSE before))

\* the _version of a class when the loop is at position k
VersionAt(name, k) ==
    IF name \in FrameClassNames /\ PositionOf[name] <= k
    THEN VersionSet(name) ELSE VersionBefore(name)

\* the visit of obj sets base._v2_frame
LinksTo(obj, base) ==
    /\ ClassTable[obj].base = base
    /\ With(PositionOf[obj], LAMBDA k :
        /\ VersionAt(obj, k) \cap {2} # {}
        /\ DeclaredSubclass(base, "Frame")
        /\ VersionAt(base, k) \cap {3, 4} # {})

\* cls._version once the loop of _register_frames has run to its end
_version == Tabulate([n \in AllClassNames |-> VersionAt(n, Len(GlobalsOrder))])

\* cls.__dict__["_v2_frame"] once the loop has run to its end ("" when the
\* class has none): the last class whose visit set it
_v2_frame ==
    With(PositionOf, LAMBDA pos :
        Tabulate([n \in AllClassNames |->
                     With({o \in FrameClassNames : LinksTo(o, n)}, LAMBDA objs :
                        IF objs = {} THEN ""
                        ELSE CHOOSE o \in objs : \A p \in objs : pos[p] <= pos[o])]))

\* the classes at whose visit the assertion of the loop does not hold:
\* the base already has a _v2_frame
RegistrationAsserts ==
    {o \in FrameClassNames :
        \E p \in FrameClassNames :
            /\ LinksTo(o, ClassTable[o].base)
            /\ LinksTo(p, ClassTable[o].base)
            /\ PositionOf[p] < PositionOf[o]}

\* Tag.known_frames: every frame class, under the name it is registered by
known_frames == FrameClassNames

known_frame_ids == {ClassTable[n].frameid : n \in FrameClassNames}

\* Tag.known_frames[frameid]: the class registered under a frame id
known_frame_class ==
    With(ClassTable, LAMBDA t :
        Tabulate([id \in known_frame_ids |->
                     CHOOSE n \in FrameClassNames : t[n].frameid = id]))

\* ------------------------------------------------------------------------
\* The class objects of the running program: what the class statements
\* and _register_frames have left behind once stagger is imported.  The
\* program reads every class attribute from there.
\* ------------------------------------------------------------------------
Imported ==
    [ClassTable |-> ClassTable,
     _version |-> _version,
     _v2_frame |-> _v2_frame,
     _allow_duplicates |-> _allow_duplicates,
     _framespec |-> _framespec,
     FramespecOwner |-> FramespecOwner,
     ToVersionOwner |-> ToVersionOwner,
     known_frames |-> known_frames,
     known_frame_ids |-> known_frame_ids,
     known_frame_class |-> known_frame_class]

VARIABLE classes   \* the class objects and Tag.known_frames

\* issubclass(name, ancestor)
RECURSIVE IsSubclass(_, _)
IsSubclass(name, ancestor) ==
    IF name = ancestor THEN TRUE
    ELSE IF name = "object" THEN FALSE
    ELSE IsSubclass(classes.ClassTable[name].base, ancestor)

\* Frame._in_version(*versions)
_in_version(name, versions) == classes._version[name] \cap versions # {}

\* hasattr(frame, "_v2_frame"): the attribute of the class or of a base class
RECURSIVE has_v2_frame(_)
has_v2_frame(name) ==
    IF name = "object" THEN FALSE
    ELSE IF classes._v2_frame[name] # "" THEN TRUE
    ELSE has_v2_frame(classes.ClassTable[name].base)

RECURSIVE get_v2_frame(_)
get_v2_frame(name) ==
    IF classes._v2_frame[name] # "" THEN classes._v2_frame[name]
    ELSE get_v2_frame(classes.ClassTable[name].base)

\* ------------------------------------------------------------------------
\* frames.py: Frame instances
\* ------------------------------------------------------------------------
\* A field value: None, an integer (i), a string or byte string (s, as code
\* points or bytes) or a list of strings (l).
NoneVal == [none |-> TRUE, i |-> 0, s |-> <<>>, l |-> <<>>]
IntVal(n) == [none |-> FALSE, i |-> n, s |-> <<>>, l |-> <<>>]
StrVal(s) == [none |-> FALSE, i |-> 0, s |-> s, l |-> <<>>]
ListVal(l) == [none |-> FALSE, i |-> 0, s |-> <<>>, l |-> l]

\* A frame: its class, its frame id (ASCII), its flags (names; grp is the
\* integer stored under "group", -1 when there is none), one value per
\* field of the class's _framespec, and, for an ErrorFrame, the class of
\* the exception it holds.
MkFrame(cls, frameid, flags, grp, vals) ==
    [cls |-> cls, frameid |-> frameid, flags |-> flags, grp |-> grp,
     vals |-> vals, exc |-> ""]

\* Frame.__init__ with keyword values: the frame id defaults to the class name
NewFrame(cls, vals) == MkFrame(cls, classes.ClassTable[cls].frameid, {}, -1, vals)

ErrorFrame(frameid, data, exception) ==
    [cls |-> "ErrorFrame", frameid |-> frameid, flags |-> {}, grp |-> -1,
     vals |-> <<StrVal(data)>>, exc |-> exception]

FieldIndex(cls, name) ==
    CHOOSE k \in 1..Len(classes._framespec[cls]) : classes._framespec[cls][k].n = name

GetField(frame, name) == frame.vals[FieldIndex(frame.cls, name)]

\* the outcome of an operation that returns a frame
OkF(frame) == [ok |-> TRUE, frame |-> frame, err |-> ""]
RaiseF(e) == [ok |-> FALSE, frame |-> MkFrame("Frame", <<>>, {}, -1, <<>>), err |-> e]

\* Frame._from_frame: the copy constructor
_from_frame(cls, frame) ==
    IF classes.FramespecOwner[frame.cls] # classes.FramespecOwner[cls] THEN RaiseF("AssertionError")
    ELSE OkF(MkFrame(cls, classes.ClassTable[cls].frameid, frame.flags, frame.grp, frame.vals))

\* str.lower() and str.upper() on ASCII code points
Lower(s) == [k \in 1..Len(s) |-> IF s[k] \in 65..90 THEN s[k] + 32 ELSE s[k]]
Upper(s) == [k \in 1..Len(s) |-> IF s[k] \in 97..122 THEN s[k] - 32 ELSE s[k]]

Str_image_jpeg == <<105, 109, 97, 103, 101, 47, 106, 112, 101, 103>>
Str_image_jpg == <<105, 109, 97, 103, 101, 47, 106, 112, 103>>
Str_image_png == <<105, 109, 97, 103, 101, 47, 112, 110, 103>>
Str_PNG == <<80, 78, 71>>
Str_JPG == <<74, 80, 71>>

\* APIC._to_version
APIC_to_version(frame, version) ==
    IF version \in {3, 4} THEN OkF(frame)
    ELSE IF Lower(GetField(frame, "mime").s)
               \notin {Str_image_jpeg, Str_image_jpg, Str_image_png}
         THEN RaiseF("ValueError")
    ELSE OkF(NewFrame("PIC",
             <<NoneVal,
               StrVal(IF Lower(GetField(frame, "mime").s) = Str_image_png
                         THEN Str_PNG ELSE Str_JPG),
               GetField(frame, "type"),
               GetField(frame, "desc"),
               GetField(frame, "data")>>))

\* PIC._to_version; id3.py does not import io, so the imghdr branch raises
\* NameError before it can look at the picture data
PIC_to_version(frame, version) ==
    IF version = 2 THEN OkF(frame)
    ELSE IF version \notin {3, 4} THEN RaiseF("AssertionError")
    ELSE IF Upper(GetField(frame, "format").s) \notin {Str_PNG, Str_JPG}
         THEN RaiseF("NameError")
    ELSE OkF(NewFrame("APIC",
             <<NoneVal,
               StrVal(IF Upper(GetField(frame, "format").s) = Str_PNG
                         THEN Str_image_png ELSE Str_image_jpeg),
               GetField(frame, "type"),
               GetField(frame, "desc"),
               GetField(frame, "data")>>))

\* a variant of Frame._to_version that also promotes a frame to its
\* structural parent when the parent is not valid for the target
Frame_to_version_lax(frame, version) ==
    IF _in_version(frame.cls, {version}) THEN OkF(frame)
    ELSE IF version = 2 /\ has_v2_frame(frame.cls)
         THEN _from_frame(get_v2_frame(frame.cls), frame)
    ELSE IF IsSubclass(classes.ClassTable[frame.cls].base, "Frame")
         THEN _from_frame(classes.ClassTable[frame.cls].base, frame)
    ELSE RaiseF("IncompatibleFrameError")

\* Frame._to_version
Frame_to_version(frame, version) ==
    IF _in_version(frame.cls, {version}) THEN OkF(frame)
    ELSE IF version = 2 /\ has_v2_frame(frame.cls)
         THEN _from_frame(get_v2_frame(frame.cls), frame)
    ELSE IF _in_version(frame.cls, {2})
            /\ IsSubclass(classes.ClassTable[frame.cls].base, "Frame")
            /\ _in_version(classes.ClassTable[frame.cls].base, {version})
         THEN _from_frame(classes.ClassTable[frame.cls].base, frame)
    ELSE RaiseF("IncompatibleFrameError")

\* frame._to_version(version), dispatched on the class that defines it
_to_version(frame, version) ==
    IF classes.ToVersionOwner[frame.cls] = "APIC" THEN APIC_to_version(frame, version)
    ELSE IF classes.ToVersionOwner[frame.cls] = "PIC" THEN PIC_to_version(frame, version)
    ELSE Frame_to_version(frame, version)

\* ------------------------------------------------------------------------
\* specs.py: text codecs (str.encode / bytes.decode).  Strings are
\* sequences of code points below 65536.
\* ------------------------------------------------------------------------
Slice(s, a, b) == [k \in 1..(IF b >= a THEN b - a + 1 ELSE 0) |-> s[a + k - 1]]
From(s, a) == Slice(s, a, Len(s))

RECURSIVE Concat(_)
Concat(ss) == IF ss = <<>> THEN <<>> ELSE Head(ss) \o Concat(Tail(ss))

Utf8Units(c) ==
    IF c < 128 THEN <<c>>
    ELSE IF c < 2048 THEN <<192 + (c \div 64), 128 + (c % 64)>>
    ELSE <<224 + (c \div 4096), 128 + ((c \div 64) % 64), 128 + (c % 64)>>

\* the index after the UTF-8 sequence starting at data[i], 0 when malformed
Utf8Next(data, i) ==
    LET b == data[i]
        cont(j) == j <= Len(data) /\ data[j] \in 128..191
    IN IF b < 128 THEN i + 1
       ELSE IF b \in 194..223 /\ cont(i + 1) THEN i + 2
       ELSE IF b \in 224..239 /\ cont(i + 1) /\ cont(i + 2)
               /\ (b # 224 \/ data[i + 1] >= 160) THEN i + 3
       ELSE 0

Utf8Point(data, i) ==
    LET b == data[i] IN
    IF b < 128 THEN b
    ELSE IF b < 224 THEN (b - 192) * 64 + (data[i + 1] - 128)
    ELSE (b - 224) * 4096 + (data[i + 1] - 128) * 64 + (data[i + 2] - 128)

RECURSIVE Utf8DecodeFrom(_, _)
Utf8DecodeFrom(data, i) ==
    IF i > Len(data) THEN Ok(<<>>, 0)
    ELSE IF Utf8Next(data, i) = 0 THEN Raise("UnicodeDecodeError")
    ELSE With(Utf8DecodeFrom(data, Utf8Next(data, i)), LAMBDA r :
            IF r.ok THEN Ok(<<Utf8Point(data, i)>> \o r.val, 0) ELSE r)

PairsLE(data) == [k \in 1..(Len(data) \div 2) |-> data[2 * k - 1] + 256 * data[2 * k]]
PairsBE(data) == [k \in 1..(Len(data) \div 2) |-> 256 * data[2 * k - 1] + data[2 * k]]

\* the code points no codec encodes: the surrogates U+D800 to U+DFFF
IsSurrogate(c) == c \in 55296..57343

\* str.encode(enc) for the codecs of EncodedStringSpec._encodings
StrEncode(enc, s) ==
    IF \E k \in 1..Len(s) : IsSurrogate(s[k]) THEN Raise("UnicodeEncodeError")
    ELSE IF enc = 0 THEN
        IF \E k \in 1..Len(s) : s[k] > 255 THEN Raise("UnicodeEncodeError")
        ELSE Ok(s, 0)
    ELSE IF enc = 1 THEN
        Ok(<<255, 254>> \o Concat([k \in 1..Len(s) |-> <<s[k] % 256, s[k] \div 256>>]), 0)
    ELSE IF enc = 2 THEN
        Ok(Concat([k \in 1..Len(s) |-> <<s[k] \div 256, s[k] % 256>>]), 0)
    ELSE Ok(Concat([k \in 1..Len(s) |-> Utf8Units(s[k])]), 0)

\* bytes.decode(enc); "utf-16" takes the byte order from the byte order
\* mark and is little-endian without one
StrDecode(enc, data) ==
    IF enc = 0 THEN Ok(data, 0)
    ELSE IF enc = 1 THEN
        IF Len(data) % 2 = 1 THEN Raise("UnicodeDecodeError")
        ELSE IF Len(data) >= 2 /\ data[1] = 255 /\ data[2] = 254
             THEN Ok(PairsLE(From(data, 3)), 0)
        ELSE IF Len(data) >= 2 /\ data[1] = 254 /\ data[2] = 255
             THEN Ok(PairsBE(From(data, 3)), 0)
        ELSE Ok(PairsLE(data), 0)
    ELSE IF enc = 2 THEN
        IF Len(data) % 2 = 1 THEN Raise("UnicodeDecodeError")
        ELSE Ok(PairsBE(data), 0)
    ELSE Utf8DecodeFrom(data, 1)

\* EncodedStringSpec._encodings[enc][1]
Terminator(enc) == IF enc \in {1, 2} THEN <<0, 0>> ELSE <<0>>

\* EncodedStringSpec.preferred_encodings
preferred_encodings == <<0, 1>>

\* ------------------------------------------------------------------------
\* specs.py: the field specs
\* ------------------------------------------------------------------------
\* the outcome of Spec.read: the value and the rest of the data
OkR(val, rest) == [ok |-> TRUE, val |-> val, rest |-> rest, err |-> ""]
RaiseR(e) == [ok |-> FALSE, val |-> NoneVal, rest |-> <<>>, err |-> e]

\* bytes.partition(b"\x00"): the index of the first 0x00, Len + 1 without one
FirstZero(data) ==
    IF \E k \in 1..Len(data) : data[k] = 0
    THEN CHOOSE k \in 1..Len(data) : data[k] = 0 /\ \A j \in 1..(k - 1) : data[j] # 0
    ELSE Len(data) + 1

\* the loop of EncodedStringSpec.read for a 2-byte terminator: the 0-based
\* index of the first 0x00 0x00 at an even offset, len(data) without one
FirstZeroPair(data) ==
    LET hits == {i \in 0..(Len(data) - 1) :
                    i % 2 = 0 /\ i + 2 <= Len(data)
                    /\ Slice(data, i + 1, i + 2) = <<0, 0>>}
    IN IF hits = {} THEN Len(data)
       ELSE CHOOSE i \in hits : \A j \in hits : i <= j

\* a variant of EncodedStringSpec.read that decodes Latin-1 for every codec
EncodedStringSpec_read_latin1(enc, data) ==
    With(FirstZero(data), LAMBDA k :
        OkR(StrVal(Slice(data, 1, k - 1)), From(data, k + 1)))

\* EncodedStringSpec.read, enc being frame.encoding
EncodedStringSpec_read(enc, data) ==
    IF Len(Terminator(enc)) = 1 THEN
        With(FirstZero(data), LAMBDA k :
        With(StrDecode(enc, Slice(data, 1, k - 1)), LAMBDA d :
            IF d.ok THEN OkR(StrVal(d.val), From(data, k + 1)) ELSE RaiseR(d.err)))
    ELSE
        With(FirstZeroPair(data), LAMBDA index :
            IF index % 2 = 1 THEN RaiseR("EOFError")
            ELSE With(StrDecode(enc, Slice(data, 1, index)), LAMBDA d :
                    IF d.ok THEN OkR(StrVal(d.val), From(data, index + 3))
                    ELSE RaiseR(d.err)))

\* EncodedStringSpec.write; enc = -1 stands for frame.encoding = None, for
\* which indexing _encodings raises TypeError
EncodedStringSpec_write(enc, s) ==
    IF enc = -1 THEN Raise("TypeError")
    ELSE With(StrEncode(enc, s), LAMBDA e :
            IF e.ok THEN Ok(e.val \o Terminator(enc), 0) ELSE e)

\* a variant of SequenceSpec.read that returns the first string read
\* instead of the list of the strings
SequenceSpec_read_first(enc, data) ==
    IF data = <<>> THEN OkR(StrVal(<<>>), <<>>)
    ELSE EncodedStringSpec_read(enc, data)

\* SequenceSpec.read over EncodedStringSpec: reads strings while data is left
RECURSIVE SequenceSpec_read(_, _)
SequenceSpec_read(enc, data) ==
    IF data = <<>> THEN OkR(ListVal(<<>>), <<>>)
    ELSE With(EncodedStringSpec_read(enc, data), LAMBDA e :
            IF ~e.ok THEN e
            ELSE With(SequenceSpec_read(enc, e.rest), LAMBDA r :
                    IF r.ok THEN OkR(ListVal(<<e.val.s>> \o r.val.l), r.rest)
                    ELSE r))

\* SequenceSpec.write over EncodedStringSpec
RECURSIVE SequenceSpec_write(_, _)
SequenceSpec_write(enc, l) ==
    IF l = <<>> THEN Ok(<<>>, 0)
    ELSE With(EncodedStringSpec_write(enc, Head(l)), LAMBDA e :
            IF ~e.ok THEN e
            ELSE With(SequenceSpec_write(enc, Tail(l)), LAMBDA r :
                    IF r.ok THEN Ok(e.val \o r.val, 0) ELSE r))

\* the field specs whose read and write are modelled
ModelledSpecs ==
    {"ByteSpec", "IntegerSpec", "BinaryDataSpec", "SimpleStringSpec",
     "LanguageSpec", "NullTerminatedStringSpec", "URLStringSpec",
     "EncodingSpec", "EncodedStringSpec", "EncodedFullTextSpec", "SequenceSpec"}

\* spec.read(frame, data) followed by the validation that
\* Frame.__setattr__ applies to the value; enc is frame.encoding
Spec_read(fs, enc, data) ==
    IF fs.k = "ByteSpec" THEN
        IF Len(data) < 1 THEN RaiseR("EOFError")
        ELSE OkR(IntVal(data[1]), From(data, 2))
    ELSE IF fs.k = "IntegerSpec" THEN
        IF Len(data) < fs.w THEN RaiseR("EOFError")
        ELSE OkR(IntVal(Int8_decode(Slice(data, 1, fs.w))), From(data, fs.w + 1))
    ELSE IF fs.k = "BinaryDataSpec" THEN OkR(StrVal(data), <<>>)
    ELSE IF fs.k \in {"SimpleStringSpec", "LanguageSpec"} THEN
        IF Len(data) < fs.w THEN RaiseR("ValueError")
        ELSE OkR(StrVal(Slice(data, 1, fs.w)), From(data, fs.w + 1))
    ELSE IF fs.k = "NullTerminatedStringSpec" THEN
        With(FirstZero(data), LAMBDA k :
            OkR(StrVal(Slice(data, 1, k - 1)), From(data, k + 1)))
    ELSE IF fs.k = "URLStringSpec" THEN
        With(FirstZero(data), LAMBDA k :
        With(From(data, k + 1), LAMBDA rest :
        With(FirstZero(rest), LAMBDA k2 :
            IF k = 1 /\ Len(rest) > 0
            THEN OkR(StrVal(Slice(rest, 1, k2 - 1)), From(rest, k2 + 1))
            ELSE OkR(StrVal(Slice(data, 1, k - 1)), rest))))
    ELSE IF fs.k = "EncodingSpec" THEN
        IF Len(data) < 1 THEN RaiseR("EOFError")
        ELSE IF BitAnd(data[1], 252) # 0 THEN RaiseR("FrameError")
        ELSE OkR(IntVal(data[1]), From(data, 2))
    ELSE IF fs.k \in {"EncodedStringSpec", "EncodedFullTextSpec"} THEN
        EncodedStringSpec_read(enc, data)
    ELSE IF fs.k = "SequenceSpec" THEN SequenceSpec_read(enc, data)
    ELSE RaiseR("NotModelled")

\* spec.write(frame, value); enc is frame.encoding
Spec_write(fs, enc, v) ==
    IF fs.k \in {"ByteSpec", "EncodingSpec"} THEN
        IF v.none THEN Raise("TypeError")
        ELSE IF v.i \notin 0..255 THEN Raise("ValueError")
        ELSE Ok(<<v.i>>, 0)
    ELSE IF fs.k = "IntegerSpec" THEN
        IF v.none THEN Raise("TypeError") ELSE Int8_encode(v.i, fs.w)
    ELSE IF fs.k = "BinaryDataSpec" THEN
        IF v.none THEN Raise("TypeError") ELSE Ok(v.s, 0)
    ELSE IF fs.k \in {"SimpleStringSpec", "LanguageSpec"} THEN
        IF v.none THEN Ok([k \in 1..fs.w |-> 32], 0)
        ELSE With(StrEncode(0, v.s), LAMBDA e :
                IF ~e.ok THEN e
                ELSE IF Len(e.val) # fs.w THEN Raise("ValueError")
                ELSE e)
    ELSE IF fs.k \in {"NullTerminatedStringSpec", "URLStringSpec"} THEN
        IF v.none THEN Raise("AttributeError")
        ELSE With(StrEncode(0, v.s), LAMBDA e :
                IF e.ok THEN Ok(e.val \o <<0>>, 0) ELSE e)
    ELSE IF fs.k \in {"EncodedStringSpec", "EncodedFullTextSpec"} THEN
        IF v.none THEN Raise("AttributeError")
        ELSE EncodedStringSpec_write(enc, v.s)
    ELSE IF fs.k = "SequenceSpec" THEN
        IF v.none THEN Raise("TypeError")
        ELSE SequenceSpec_write(enc, v.l)
    ELSE Raise("NotModelled")

\* ------------------------------------------------------------------------
\* frames.py: decoding, encoding and merging frames
\* ------------------------------------------------------------------------
\* frame.encoding: the value of the field named "encoding", -1 for None
EncodingOf(cls, vals) ==
    IF \E k \in 1..Len(vals) : classes._framespec[cls][k].n = "encoding" /\ ~vals[k].none
    THEN vals[FieldIndex(cls, "encoding")].i
    ELSE -1

\* the loop of Frame._from_data from the k-th field spec on; no field spec
\* of id3.py is optional, so an EOFError of a read is raised again
RECURSIVE _from_data_from(_, _, _, _, _, _)
_from_data_from(cls, frameid, flags, k, data, vals) ==
    IF k > Len(classes._framespec[cls])
    THEN OkF(MkFrame(cls, frameid, flags.names, flags.grp, vals))
    ELSE With(Spec_read(classes._framespec[cls][k], EncodingOf(cls, vals), data), LAMBDA r :
            IF ~r.ok THEN RaiseF(r.err)
            ELSE With(Append(vals, r.val), LAMBDA vals2 :
                    _from_data_from(cls, frameid, flags, k + 1, r.rest, vals2)))

\* Frame._from_data(frameid, data, flags)
_from_data(cls, frameid, data, flags) ==
    _from_data_from(cls, frameid, flags, 1, data, <<>>)

\* encode_fields of Frame._to_data, with frame.encoding set to enc
RECURSIVE encode_fields_from(_, _, _)
encode_fields_from(frame, enc, k) ==
    IF k > Len(classes._framespec[frame.cls]) THEN Ok(<<>>, 0)
    ELSE LET fs == classes._framespec[frame.cls][k]
             v == IF fs.n = "encoding"
                     THEN (IF enc = -1 THEN NoneVal ELSE IntVal(enc))
                     ELSE frame.vals[k]
         IN With(Spec_write(fs, enc, v), LAMBDA w :
                IF ~w.ok THEN w
                ELSE With(encode_fields_from(frame, enc, k + 1), LAMBDA r :
                        IF r.ok THEN Ok(w.val \o r.val, 0) ELSE r))

encode_fields(frame, enc) == encode_fields_from(frame, enc, 1)

\* try_preferred_encodings of Frame._to_data, from the k-th preferred codec
\* on; num is the codec that succeeded
RECURSIVE try_preferred_encodings_from(_, _)
try_preferred_encodings_from(frame, k) ==
    IF k > Len(preferred_encodings) THEN Raise("ValueError")
    ELSE With(encode_fields(frame, preferred_encodings[k]), LAMBDA r :
            IF r.ok THEN Ok(r.val, preferred_encodings[k])
            ELSE IF r.err = "UnicodeEncodeError"
                 THEN try_preferred_encodings_from(frame, k + 1)
            ELSE r)

\* Frame._to_data
_to_data(frame) ==
    With(EncodingOf(frame.cls, frame.vals), LAMBDA enc :
        IF classes._framespec[frame.cls][1].k # "EncodingSpec" THEN encode_fields(frame, enc)
        ELSE IF enc = -1 THEN try_preferred_encodings_from(frame, 1)
        ELSE With(encode_fields(frame, enc), LAMBDA r :
                IF ~r.ok /\ r.err = "UnicodeEncodeError"
                THEN try_preferred_encodings_from(frame, 1)
                ELSE r))

\* the frame after _to_data: encode_fields assigns nothing, and the
\* finally clause of try_preferred_encodings sets frame.encoding back to
\* orig_encoding on every way out
AfterToData(frame) == frame

\* a warning: "duplicate" for "Frame {0} duplicated, only the last instance
\* is kept", "incompatible" for "Skipping incompatible frame {0}" and
\* "invalid" for "Skipping invalid frame {0}", with the frame id named
Warning(kind, frameid) == [kind |-> kind, frameid |-> frameid]

\* the outcome of a merge: the frames kept and the warnings emitted
Merged(frames, warnings) == [frames |-> frames, warnings |-> warnings]

\* a variant of Frame._merge that keeps the first of the duplicates
Frame_merge_first(cls, frames) ==
    IF classes._allow_duplicates[cls] THEN Merged(frames, <<>>)
    ELSE Merged(<<frames[1]>>,
                IF Len(frames) > 1 THEN <<Warning("duplicate", frames[1].frameid)>>
                ELSE <<>>)

\* a variant of Frame._merge that keeps the last frame whatever the class
\* says about duplicates
Frame_merge_last_only(cls, frames) ==
    Merged(<<frames[Len(frames)]>>,
           IF Len(frames) > 1 THEN <<Warning("duplicate", frames[1].frameid)>>
           ELSE <<>>)

\* Frame._merge
Frame_merge(cls, frames) ==
    IF classes._allow_duplicates[cls] THEN Merged(frames, <<>>)
    ELSE Merged(<<frames[Len(frames)]>>,
                IF Len(frames) > 1 THEN <<Warning("duplicate", frames[1].frameid)>>
                ELSE <<>>)

\* the loop of TextFrame._merge over the encodings: -1 is None, -2 is False
RECURSIVE MergedEncoding(_, _, _)
MergedEncoding(frames, k, enc) ==
    IF k > Len(frames) THEN enc
    ELSE With(EncodingOf(frames[k].cls, frames[k].vals), LAMBDA fe :
         With(IF enc = -1 THEN fe
              ELSE IF enc = -2 THEN -2
              ELSE IF enc # fe THEN -2
              ELSE enc,
              LAMBDA enc2 : MergedEncoding(frames, k + 1, enc2)))

\* TextFrame._merge
TextFrame_merge(cls, frames) ==
    IF Len(frames) = 1 THEN Merged(frames, <<>>)
    ELSE With(MergedEncoding(frames, 1, -1), LAMBDA enc :
         With(Concat([k \in 1..Len(frames) |-> GetField(frames[k], "text").l]),
              LAMBDA text :
                Merged(<<NewFrame(cls, <<IF enc < 0 THEN NoneVal ELSE IntVal(enc),
                                         ListVal(text)>>)>>,
                       <<>>)))

\* frames[0]._merge(frames): TextFrame and its subclasses use TextFrame._merge
_merge(frames) ==
    IF IsSubclass(frames[1].cls, "TextFrame")
    THEN TextFrame_merge(frames[1].cls, frames)
    ELSE Frame_merge(frames[1].cls, frames)

\* ------------------------------------------------------------------------
\* tags.py: reading tags.  A file is a byte sequence; a reader is a
\* position in it (1-based index of the next byte, so file.tell() is
\* pos - 1) and, for an UnsyncReader, the state of its generator.
\* ------------------------------------------------------------------------
_FRAME23_FORMAT_COMPRESSED == 128
_FRAME23_FORMAT_ENCRYPTED == 64
_FRAME23_FORMAT_GROUP == 32
_FRAME23_FORMAT_UNKNOWN_MASK == 31
_FRAME23_STATUS_DISCARD_ON_TAG_ALTER == 32768
_FRAME23_STATUS_DISCARD_ON_FILE_ALTER == 16384
_FRAME23_STATUS_READ_ONLY == 8192
_FRAME23_STATUS_UNKNOWN_MASK == 7936
_TAG24_UNSYNCHRONISED == 128
_TAG24_EXTENDED_HEADER == 64
_TAG24_EXPERIMENTAL == 32
_TAG24_FOOTER == 16
_TAG24_UNKNOWN_MASK == 15
_FRAME24_FORMAT_GROUP == 64
_FRAME24_FORMAT_COMPRESSED == 8
_FRAME24_FORMAT_ENCRYPTED == 4
_FRAME24_FORMAT_UNSYNCHRONISED == 2
_FRAME24_FORMAT_DATA_LENGTH_INDICATOR == 1
_FRAME24_FORMAT_UNKNOWN_MASK == 45056
_FRAME24_STATUS_DISCARD_ON_TAG_ALTER == 16384
_FRAME24_STATUS_DISCARD_ON_FILE_ALTER == 8192
_FRAME24_STATUS_READ_ONLY == 4096
_FRAME24_STATUS_UNKNOWN_MASK == 36608
padding_default == 128
padding_max == 1024

Reader(pos, unsync) == [pos |-> pos, unsync |-> unsync, sync |-> FALSE, dead |-> FALSE]

OkX(bytes, rd) == [ok |-> TRUE, val |-> bytes, rd |-> rd, err |-> ""]
RaiseX(e, rd) == [ok |-> FALSE, val |-> <<>>, rd |-> rd, err |-> e]

\* UnsyncReader.read(n): pull n items from Unsync.gen_decode over
\* __gen_readchar.  At the end of the file, file.read(1)[0] raises
\* IndexError, which ends the generator; a finished generator yields
\* nothing, so a later read of n > 0 raises EOFError.
RECURSIVE UnsyncReader_read(_, _, _, _)
UnsyncReader_read(file, rd, n, acc) ==
    IF n = 0 THEN OkX(acc, rd)
    ELSE IF rd.dead THEN RaiseX("EOFError", rd)
    ELSE IF rd.pos > Len(file) THEN RaiseX("IndexError", [rd EXCEPT !.dead = TRUE])
    ELSE LET b == file[rd.pos]
         IN IF rd.sync /\ b = 0
            THEN With([rd EXCEPT !.pos = @ + 1, !.sync = FALSE], LAMBDA rd2 :
                    UnsyncReader_read(file, rd2, n, acc))
            ELSE With([rd EXCEPT !.pos = @ + 1, !.sync = (b = 255)], LAMBDA rd2 :
                 With(Append(acc, b), LAMBDA acc2 :
                    UnsyncReader_read(file, rd2, n - 1, acc2)))

\* fileutil.xread(file, n) on a plain file or on an UnsyncReader
xread(file, rd, n) ==
    IF rd.unsync THEN UnsyncReader_read(file, rd, n, <<>>)
    ELSE IF rd.pos + n - 1 > Len(file)
         THEN RaiseX("EOFError", [rd EXCEPT !.pos = Len(file) + 1])
    ELSE OkX(Slice(file, rd.pos, rd.pos + n - 1), [rd EXCEPT !.pos = @ + n])

IsUpper(b) == b \in 65..90
IsUpperOrDigit(b) == b \in 65..90 \/ b \in 48..57

\* Tag._is_frame_id: ^[A-Z][A-Z0-9]{2}[A-Z0-9 ]?$ on bytes, where $ also
\* matches before a final newline
_is_frame_id(data) ==
    /\ Len(data) \in {3, 4}
    /\ IsUpper(data[1]) /\ IsUpperOrDigit(data[2]) /\ IsUpperOrDigit(data[3])
    /\ Len(data) = 4 => (IsUpperOrDigit(data[4]) \/ data[4] = 32 \/ data[4] = 10)

\* the outcome of _interpret_frame_flags
OkI(names, grp, data) ==
    [ok |-> TRUE, names |-> names, grp |-> grp, data |-> data, err |-> ""]
RaiseI(e) == [ok |-> FALSE, names |-> {}, grp |-> -1, data |-> <<>>, err |-> e]

Has(bflags, mask) == BitAnd(bflags, mask) # 0

\* Tag23._interpret_frame_flags.  The messages of the unknown-flag
\* branches format the undefined name b, and zlib is not imported: these
\* branches raise NameError.
Tag23_interpret_frame_flags(bflags, data) ==
    IF Has(bflags, _FRAME23_FORMAT_UNKNOWN_MASK) THEN RaiseI("NameError")
    ELSE IF Has(bflags, _FRAME23_FORMAT_COMPRESSED) THEN RaiseI("NameError")
    ELSE IF Has(bflags, _FRAME23_FORMAT_ENCRYPTED) THEN RaiseI("FrameError")
    ELSE IF Has(bflags, _FRAME23_FORMAT_GROUP) /\ data = <<>> THEN RaiseI("IndexError")
    ELSE IF Has(bflags, _FRAME23_STATUS_UNKNOWN_MASK) THEN RaiseI("NameError")
    ELSE OkI((IF Has(bflags, _FRAME23_FORMAT_GROUP)
                 THEN {"group", "group" \o ToString(data[1])} ELSE {})
             \cup (IF Has(bflags, _FRAME23_STATUS_DISCARD_ON_TAG_ALTER)
                      THEN {"discard_on_tag_alter"} ELSE {})
             \cup (IF Has(bflags, _FRAME23_STATUS_DISCARD_ON_FILE_ALTER)
                      THEN {"discard_on_file_alter"} ELSE {})
             \cup (IF Has(bflags, _FRAME23_STATUS_READ_ONLY)
                      THEN {"read_only"} ELSE {}),
             -1,
             IF Has(bflags, _FRAME23_FORMAT_GROUP) THEN Tail(data) ELSE data)

\* Tag24._interpret_frame_flags.  The body is undone only when the TAG's
\* flags hold "unsynchronised" or "compressed", which _read_header never
\* adds; the bare lookup flags["data_length_indicator"] raises KeyError.
Tag24_interpret_frame_flags(tagflags, bflags, data) ==
    IF Has(bflags, _FRAME24_FORMAT_UNKNOWN_MASK) THEN RaiseI("NameError")
    ELSE IF Has(bflags, _FRAME24_FORMAT_GROUP) /\ data = <<>> THEN RaiseI("IndexError")
    ELSE IF Has(bflags, _FRAME24_FORMAT_ENCRYPTED) THEN RaiseI("FrameError")
    ELSE IF Has(bflags, _FRAME24_FORMAT_DATA_LENGTH_INDICATOR) THEN RaiseI("KeyError")
    ELSE LET d1 == IF Has(bflags, _FRAME24_FORMAT_GROUP) THEN Tail(data) ELSE data
             d2 == IF "unsynchronised" \in tagflags THEN Unsync_decode(d1) ELSE d1
         IN IF "compressed" \in tagflags THEN RaiseI("NameError")
            ELSE IF Has(bflags, _FRAME24_STATUS_UNKNOWN_MASK) THEN RaiseI("NameError")
            ELSE OkI((IF Has(bflags, _FRAME24_FORMAT_GROUP) THEN {"group"} ELSE {})
                     \cup (IF Has(bflags, _FRAME24_FORMAT_COMPRESSED)
                              THEN {"compressed"} ELSE {})
                     \cup (IF Has(bflags, _FRAME24_FORMAT_UNSYNCHRONISED)
                              THEN {"unsynchronised"} ELSE {})
                     \cup (IF Has(bflags, _FRAME24_STATUS_DISCARD_ON_TAG_ALTER)
                              THEN {"discard_on_tag_alter"} ELSE {})
                     \cup (IF Has(bflags, _FRAME24_STATUS_DISCARD_ON_FILE_ALTER)
                              THEN {"discard_on_file_alter"} ELSE {})
                     \cup (IF Has(bflags, _FRAME24_STATUS_READ_ONLY)
                              THEN {"read_only"} ELSE {}),
                     IF Has(bflags, _FRAME24_FORMAT_GROUP) THEN data[1] ELSE -1,
                     d2)

\* tag._interpret_frame_flags(bflags, data); version 2 has no frame flags
_interpret_frame_flags(version, tagflags, bflags, data) ==
    IF version = 2 THEN OkI({}, -1, data)
    ELSE IF version = 3 THEN Tag23_interpret_frame_flags(bflags, data)
    ELSE Tag24_interpret_frame_flags(tagflags, bflags, data)

\* the exceptions Tag._frame_from_data turns into an ErrorFrame;
\* UnicodeDecodeError is a ValueError
CaughtOnRead == {"FrameError", "ValueError", "EOFError", "UnicodeDecodeError",
                 "UnicodeEncodeError"}

\* Tag._frame_from_data
_frame_from_data(version, tagflags, frameid, bflags, data) ==
    With(_interpret_frame_flags(version, tagflags, bflags, data), LAMBDA i :
    With([i EXCEPT !.names = @ \cup {"unknown"}], LAMBDA u :
    With(IF ~i.ok THEN RaiseF(i.err)
         ELSE IF frameid \in classes.known_frame_ids
              THEN _from_data(classes.known_frame_class[frameid], frameid, i.data, i)
         ELSE IF frameid[1] = 84
              THEN _from_data("TextFrame", frameid, i.data, u)
         ELSE IF frameid[1] = 87
              THEN _from_data("URLFrame", frameid, i.data, u)
         ELSE _from_data("UnknownFrame", frameid, i.data, u),
         LAMBDA r :
            IF r.ok THEN r
            ELSE IF r.err \in CaughtOnRead
                 THEN OkF(ErrorFrame(frameid, IF i.ok THEN i.data ELSE data, r.err))
            ELSE r)))

\* A tag: its version, header flags, frames (in the order of
\* Tag.values(): grouped by frame id, ids in order of first appearance),
\* offset and size, and the attributes that steer encode.
MkTag(version, flags, frames, size, fo) ==
    [version |-> version, flags |-> flags, frames |-> frames, offset |-> 0,
     size |-> size, padding_max |-> padding_max,
     padding_default |-> padding_default, frame_order |-> fo]

\* the outcome of an operation that returns a tag; pos is the reader's
\* final position
OkT(tag, rd) == [ok |-> TRUE, tag |-> tag, pos |-> rd.pos, err |-> ""]
RaiseT(e, rd) ==
    [ok |-> FALSE, tag |-> MkTag(0, {}, <<>>, 0, <<>>), pos |-> rd.pos, err |-> e]

\* the frame ids of a frame sequence, in order of first appearance
RECURSIVE FrameIds(_)
FrameIds(frames) ==
    IF frames = <<>> THEN <<>>
    ELSE LET id == frames[1].frameid
             rest == SelectSeq(Tail(frames), LAMBDA f : f.frameid # id)
         IN <<id>> \o FrameIds(rest)

WithId(frames, id) == SelectSeq(frames, LAMBDA f : f.frameid = id)

\* the grouping done by tag._frames.setdefault(frame.frameid, []) and
\* undone by Tag.values()
Values(frames) ==
    With(FrameIds(frames), LAMBDA ids :
        Concat([k \in 1..Len(ids) |-> WithId(frames, ids[k])]))

\* the header flags of _read_header
HeaderFlags(version, b) ==
    (IF Has(b, 128) THEN {"unsynchronisation"} ELSE {})
    \cup (IF version >= 3 /\ Has(b, 64) THEN {"extended_header"} ELSE {})
    \cup (IF version >= 3 /\ Has(b, 32) THEN {"experimental"} ELSE {})
    \cup (IF version = 4 /\ Has(b, _TAG24_FOOTER) THEN {"footer"} ELSE {})

\* the warnings of _read_header about flag bits it does not know; Tag22
\* raises for the compression bit before it warns
_read_header_warnings(version, b) ==
    IF version = 2 THEN
        IF ~Has(b, 64) /\ Has(b, 63) THEN <<"Unknown ID3v2.2 flags">> ELSE <<>>
    ELSE IF version = 3 THEN
        IF Has(b, 31) THEN <<"Unknown ID3v2.3 flags">> ELSE <<>>
    ELSE IF Has(b, _TAG24_UNKNOWN_MASK) THEN <<"Unknown ID3v2.4 flags">> ELSE <<>>

\* the flag data blocks of Tag24.__read_extended_header, one per flag bit
\* set in bits (a sequence of masks still to be handled)
RECURSIVE Tag24_ext_flag_data(_, _, _)
Tag24_ext_flag_data(flags, masks, data) ==
    IF masks = <<>> THEN ""
    ELSE IF ~Has(flags, Head(masks)) THEN Tag24_ext_flag_data(flags, Tail(masks), data)
    ELSE IF data = <<>> THEN "IndexError"
    ELSE IF Has(data[1], 128) THEN "TagError"
    ELSE IF Head(masks) = 32
            /\ \E k \in 2..(1 + data[1]) : k <= Len(data) /\ data[k] > 127
         THEN "ValueError"
    ELSE Tag24_ext_flag_data(flags, Tail(masks), From(data, 2 + data[1]))

\* Tag24.__read_extended_header: "" or the exception raised, and the reader
Tag24_read_extended_header(file, rd) ==
    With(xread(file, rd, 4), LAMBDA s :
      IF ~s.ok THEN RaiseX(s.err, s.rd)
      ELSE With(Syncsafe_decode(s.val), LAMBDA size :
        IF ~size.ok THEN RaiseX("ValueError", s.rd)
        ELSE IF size.num < 4
             THEN RaiseX("EOFError", [s.rd EXCEPT !.pos = Len(file) + 1])
        ELSE With(xread(file, s.rd, size.num - 4), LAMBDA d :
          IF ~d.ok THEN RaiseX(d.err, d.rd)
          ELSE IF Len(d.val) < 2 THEN RaiseX("IndexError", d.rd)
          ELSE With(Tag24_ext_flag_data(d.val[2], <<64, 32, 16>>,
                                        From(d.val, 2 + d.val[1])), LAMBDA e :
            LET ext == (IF Has(d.val[2], 64) THEN {"ext:update"} ELSE {})
                       \cup (IF Has(d.val[2], 32) THEN {"ext:crc_present"} ELSE {})
                       \cup (IF Has(d.val[2], 16) THEN {"ext:restrictions"} ELSE {})
            IN IF e # "" THEN RaiseX(e, d.rd)
               ELSE [ok |-> TRUE, val |-> <<>>, rd |-> d.rd, err |-> "",
                     ext |-> ext]))))

\* tag._read_header(file) for the three tag classes: the tag without
\* frames.  Tag23 calls __read_extended_header without the file, a
\* TypeError.
_read_header(version, file, fo) ==
    With(xread(file, Reader(1, FALSE), 10), LAMBDA h :
      LET header == h.val IN
      IF ~h.ok THEN RaiseT(h.err, h.rd)
      ELSE IF Slice(header, 1, 5) # <<73, 68, 51, version, 0>>
           THEN RaiseT("TagError", h.rd)
      ELSE IF version = 2 /\ Has(header[6], 64) THEN RaiseT("TagError", h.rd)
      ELSE With(Syncsafe_decode(Slice(header, 7, 10)), LAMBDA size :
           With(HeaderFlags(version, header[6]), LAMBDA flags :
             LET total == size.num + 10 + (IF "footer" \in flags THEN 10 ELSE 0) IN
             IF ~size.ok THEN RaiseT("ValueError", h.rd)
             ELSE IF "extended_header" \notin flags
                  THEN OkT(MkTag(version, flags, <<>>, total, fo), h.rd)
             ELSE IF version = 3 THEN RaiseT("TypeError", h.rd)
             ELSE With(Tag24_read_extended_header(file, h.rd), LAMBDA x :
                    IF ~x.ok THEN RaiseT(x.err, x.rd)
                    ELSE OkT(MkTag(version, flags \cup x.ext, <<>>, total, fo),
                             x.rd)))))

\* the loop of Tag.read over tag._read_frames(file): frames read so far,
\* reader state.  Versions 2 and 3 read through an UnsyncReader when the
\* tag is unsynchronised; version 4 always reads the file itself.
RECURSIVE _read_frames(_, _, _, _)
_read_frames(tag, file, rd, frames) ==
    LET v == tag.version
        hlen == IF v = 2 THEN 6 ELSE 10
        idlen == IF v = 2 THEN 3 ELSE 4
        done(r) == OkT([tag EXCEPT !.frames = Values(frames)], r)
    IN IF ~(rd.pos - 1 < tag.offset + tag.size) THEN done(rd)
       ELSE With(xread(file, rd, hlen), LAMBDA h :
         IF ~h.ok THEN RaiseT(h.err, h.rd)
         ELSE With(Slice(h.val, 1, idlen), LAMBDA frameid :
           IF ~_is_frame_id(frameid) THEN done(h.rd)
           ELSE With(IF v = 4 THEN Syncsafe_decode(Slice(h.val, idlen + 1, 2 * idlen))
                     ELSE Ok(<<>>, Int8_decode(Slice(h.val, idlen + 1, 2 * idlen))),
                     LAMBDA size :
             IF ~size.ok THEN RaiseT(size.err, h.rd)
             ELSE With(xread(file, h.rd, size.num), LAMBDA d :
               IF ~d.ok THEN RaiseT(d.err, d.rd)
               ELSE With(_frame_from_data(v, tag.flags, frameid,
                             IF v = 2 THEN 0 ELSE Int8_decode(Slice(h.val, 9, 10)),
                             d.val), LAMBDA f :
                 IF ~f.ok THEN RaiseT(f.err, d.rd)
                 ELSE With(Append(frames, f.frame), LAMBDA frames2 :
                   IF d.rd.pos - 1 > tag.offset + tag.size
                   THEN OkT([tag EXCEPT !.frames = Values(frames2)], d.rd)
                   ELSE _read_frames(tag, file, d.rd, frames2)))))))

\* Tag.read (and Tag.decode) of the tag class for the given version
Tag_read(version, file, fo) ==
    With(_read_header(version, file, fo), LAMBDA h :
      LET unsync == version \in {2, 3} /\ "unsynchronisation" \in h.tag.flags
      IN IF ~h.ok THEN h
         ELSE _read_frames(h.tag, file, Reader(h.pos, unsync), <<>>))

\* detect_tag followed by the read of the detected class: read_tag and
\* decode_tag
read_tag(file, fo) ==
    IF Len(file) < 10 THEN RaiseT("EOFError", Reader(1, FALSE))
    ELSE IF Slice(file, 1, 3) # <<73, 68, 51>> THEN RaiseT("NoTagError", Reader(1, FALSE))
    ELSE IF file[4] \notin {2, 3, 4} \/ file[5] # 0 THEN RaiseT("TagError", Reader(1, FALSE))
    ELSE IF ~Syncsafe_decode(Slice(file, 7, 10)).ok THEN RaiseT("ValueError", Reader(1, FALSE))
    ELSE Tag_read(file[4], file, fo)

\* the warnings read_tag emits while the header is read
read_tag_warnings(file) ==
    IF Len(file) < 10 \/ Slice(file, 1, 3) # <<73, 68, 51>>
       \/ file[4] \notin {2, 3, 4} \/ file[5] # 0
       \/ ~Syncsafe_decode(Slice(file, 7, 10)).ok
    THEN <<>>
    ELSE _read_header_warnings(file[4], file[6])

\* ------------------------------------------------------------------------
\* tags.py: FrameOrder.  A pattern is a frame class or a regular
\* expression of the form "<prefix>.*", kept as its prefix.
\* ------------------------------------------------------------------------
ClassPattern(cls) == [kind |-> "class", cls |-> cls, prefix |-> <<>>]
RePattern(prefix) == [kind |-> "re", cls |-> "", prefix |-> prefix]

\* re.match(pattern, frameid)
re_match(pat, frameid) ==
    Len(frameid) >= Len(pat.prefix) /\ Slice(frameid, 1, Len(pat.prefix)) = pat.prefix

\* FrameOrder.__init__: the patterns must not be empty, for unknown_key
\* reads the loop variable after the loop
FrameOrder_init(patterns) ==
    IF patterns = <<>> THEN "UnboundLocalError" ELSE ""

\* frame_keys[cls]: the key of the last pattern naming the class
frame_key(patterns, cls) ==
    (CHOOSE k \in 1..Len(patterns) :
        /\ patterns[k] = ClassPattern(cls)
        /\ \A j \in (k + 1)..Len(patterns) : patterns[j] # ClassPattern(cls)) - 1

in_frame_keys(patterns, cls) ==
    \E k \in 1..Len(patterns) : patterns[k] = ClassPattern(cls)

\* a variant that tries the regular expressions first
FrameOrder_key_text_first(patterns, frame) ==
    LET base == classes.ClassTable[frame.cls].base
        hits == {k \in 1..Len(patterns) :
                    patterns[k].kind = "re" /\ re_match(patterns[k], frame.frameid)}
    IN IF hits # {} THEN (CHOOSE k \in hits : \A j \in hits : k <= j) - 1
       ELSE IF in_frame_keys(patterns, frame.cls) THEN frame_key(patterns, frame.cls)
       ELSE IF _in_version(frame.cls, {2}) /\ in_frame_keys(patterns, base)
            THEN frame_key(patterns, base)
       ELSE Len(patterns)

\* FrameOrder.key, as the integer inside the 1-tuple
FrameOrder_key(patterns, frame) ==
    LET base == classes.ClassTable[frame.cls].base
        hits == {k \in 1..Len(patterns) :
                    patterns[k].kind = "re" /\ re_match(patterns[k], frame.frameid)}
    IN IF in_frame_keys(patterns, frame.cls) THEN frame_key(patterns, frame.cls)
       ELSE IF _in_version(frame.cls, {2}) /\ in_frame_keys(patterns, base)
            THEN frame_key(patterns, base)
       ELSE IF hits # {} THEN (CHOOSE k \in hits : \A j \in hits : k <= j) - 1
       ELSE Len(patterns)

\* list.sort(key=...): stable
SortByKey(patterns, frames) ==
    Concat([k \in 1..(Len(patterns) + 1) |->
               SelectSeq(frames, LAMBDA f : FrameOrder_key(patterns, f) = k - 1)])

\* ------------------------------------------------------------------------
\* tags.py: the encode pipeline
\* ------------------------------------------------------------------------
\* the outcome of _prepare_frames and of encode: the frames serialised,
\* the bytes, and the warnings emitted
OkE(bytes, frames, warnings) ==
    [ok |-> TRUE, val |-> bytes, frames |-> frames, warnings |-> warnings, err |-> ""]
RaiseE(e, warnings) ==
    [ok |-> FALSE, val |-> <<>>, frames |-> <<>>, warnings |-> warnings, err |-> e]

\* the conversion loop of _prepare_frames over one group of frames
RECURSIVE ConvertGroup(_, _)
ConvertGroup(frames, version) ==
    IF frames = <<>> THEN OkE(<<>>, <<>>, <<>>)
    ELSE With(_to_version(Head(frames), version), LAMBDA c :
           IF ~c.ok THEN RaiseE(c.err, <<>>)
           ELSE With(ConvertGroup(Tail(frames), version), LAMBDA r :
                  IF ~r.ok THEN r
                  ELSE OkE(<<>>, <<c.frame>> \o r.frames, <<>>)))

\* the merge of every group, then the conversion of every group, of
\* _prepare_frames, from the k-th frame id on; an IncompatibleFrameError
\* or ValueError drops the group with a warning, any other exception
\* leaves _prepare_frames
RECURSIVE PrepareGroups(_, _, _, _)
PrepareGroups(tag, frames, ids, k) ==
    IF k > Len(ids) THEN OkE(<<>>, <<>>, <<>>)
    ELSE With(_merge(WithId(frames, ids[k])), LAMBDA m :
         With(ConvertGroup(m.frames, tag.version), LAMBDA c :
           LET w == IF c.ok THEN <<>>
                    ELSE IF c.err = "IncompatibleFrameError"
                         THEN <<Warning("incompatible", ids[k])>>
                    ELSE <<Warning("invalid", ids[k])>>
           IN IF ~c.ok /\ c.err \notin {"IncompatibleFrameError", "ValueError"}
              THEN RaiseE(c.err, <<>>)
              ELSE With(PrepareGroups(tag, frames, ids, k + 1), LAMBDA r :
                     IF ~r.ok THEN RaiseE(r.err, w \o r.warnings)
                     ELSE OkE(<<>>, c.frames \o r.frames, w \o r.warnings))))

\* the warnings of the merge loop, which runs over every group before any
\* group is converted
MergeWarnings(frames) ==
    With(FrameIds(frames), LAMBDA ids :
        Concat([k \in 1..Len(ids) |-> _merge(WithId(frames, ids[k])).warnings]))

\* Tag._prepare_frames(self.values())
_prepare_frames(tag) ==
    With(FrameIds(tag.frames), LAMBDA ids :
    With(PrepareGroups(tag, tag.frames, ids, 1), LAMBDA p :
    With(MergeWarnings(tag.frames), LAMBDA mw :
      IF ~p.ok THEN RaiseE(p.err, mw \o p.warnings)
      ELSE OkE(<<>>, SortByKey(tag.frame_order, p.frames), mw \o p.warnings))))

\* Tag._get_size_with_padding; size_desired = -1 stands for None, as does
\* padding_max = -1
_get_size_with_padding(tag, size_desired, size_actual) ==
    IF size_desired # -1 /\ size_actual < size_desired
       /\ (tag.padding_max = -1 \/ size_desired - size_actual <= tag.padding_max)
    THEN size_desired
    ELSE IF tag.padding_default # 0 THEN size_actual + tag.padding_default
    ELSE size_actual

\* Tag22.__encode_one_frame; raising a str is itself a TypeError
Tag22_encode_one_frame(frame) ==
    With(_to_data(frame), LAMBDA fd :
    With(Int8_encode(Len(fd.val), 3), LAMBDA size :
      IF ~fd.ok THEN fd
      ELSE IF Len(frame.frameid) # 3 \/ ~_is_frame_id(frame.frameid)
           THEN Raise("TypeError")
      ELSE IF ~size.ok THEN size
      ELSE Ok(frame.frameid \o size.val \o fd.val, 0)))

\* the status bits of a frame's flags for __encode_one_frame
StatusBits(flags, tagalter, filealter, readonly) ==
    (IF "discard_on_tag_alter" \in flags THEN tagalter ELSE 0)
    + (IF "discard_on_file_alter" \in flags THEN filealter ELSE 0)
    + (IF "read_only" \in flags THEN readonly ELSE 0)

\* Tag23.__encode_one_frame; tags.py does not import zlib, so a
\* compressed frame raises NameError
Tag23_encode_one_frame(frame) ==
    With(_to_data(frame), LAMBDA fd :
      LET frameinfo == IF frame.grp >= 0 THEN <<frame.grp>> ELSE <<>>
          flagval == (IF frame.grp >= 0 THEN _FRAME23_FORMAT_GROUP ELSE 0)
                     + StatusBits(frame.flags, _FRAME23_STATUS_DISCARD_ON_TAG_ALTER,
                                  _FRAME23_STATUS_DISCARD_ON_FILE_ALTER,
                                  _FRAME23_STATUS_READ_ONLY)
      IN With(Int8_encode(Len(frameinfo) + Len(fd.val), 4), LAMBDA size :
           IF ~fd.ok THEN fd
           ELSE IF "compressed" \in frame.flags THEN Raise("NameError")
           ELSE IF Len(frame.frameid) # 4 \/ ~_is_frame_id(frame.frameid)
                THEN Raise("ValueError")
           ELSE IF ~size.ok THEN size
           ELSE Ok(frame.frameid \o size.val \o Int8_encode(flagval, 2).val
                   \o frameinfo \o fd.val, 0)))

\* Tag24.__encode_one_frame
Tag24_encode_one_frame(frame) ==
    With(_to_data(frame), LAMBDA fd :
      LET unsync == "unsynchronised" \in frame.flags
          dli == unsync \/ "data_length_indicator" \in frame.flags
          flagval == (IF frame.grp >= 0 THEN _FRAME24_FORMAT_GROUP ELSE 0)
                     + (IF unsync THEN _FRAME24_FORMAT_UNSYNCHRONISED ELSE 0)
                     + (IF dli THEN _FRAME24_FORMAT_DATA_LENGTH_INDICATOR ELSE 0)
                     + StatusBits(frame.flags, _FRAME24_STATUS_DISCARD_ON_TAG_ALTER,
                                  _FRAME24_STATUS_DISCARD_ON_FILE_ALTER,
                                  _FRAME24_STATUS_READ_ONLY)
      IN With(IF unsync THEN Unsync_encode(fd.val) ELSE fd.val, LAMBDA framedata :
         With(Syncsafe_encode(Len(fd.val), 4), LAMBDA origlen :
         With((IF frame.grp >= 0 THEN <<frame.grp>> ELSE <<>>)
              \o (IF dli THEN origlen.val ELSE <<>>), LAMBDA frameinfo :
         With(Syncsafe_encode(Len(frameinfo) + Len(framedata), 4), LAMBDA size :
           IF ~fd.ok THEN fd
           ELSE IF "compressed" \in frame.flags THEN Raise("NameError")
           ELSE IF dli /\ ~origlen.ok THEN origlen
           ELSE IF Len(frame.frameid) # 4 \/ ~_is_frame_id(frame.frameid)
                THEN Raise("TypeError")
           ELSE IF ~size.ok THEN size
           ELSE Ok(frame.frameid \o size.val \o Int8_encode(flagval, 2).val
                   \o frameinfo \o framedata, 0))))))

encode_one_frame(version, frame) ==
    IF version = 2 THEN Tag22_encode_one_frame(frame)
    ELSE IF version = 3 THEN Tag23_encode_one_frame(frame)
    ELSE Tag24_encode_one_frame(frame)

\* bytearray().join(self.__encode_one_frame(frame) for frame in frames)
RECURSIVE encode_frames(_, _)
encode_frames(version, frames) ==
    IF frames = <<>> THEN Ok(<<>>, 0)
    ELSE With(encode_one_frame(version, Head(frames)), LAMBDA e :
           IF ~e.ok THEN e
           ELSE With(encode_frames(version, Tail(frames)), LAMBDA r :
                  IF ~r.ok THEN r
                  ELSE Ok(e.val \o r.val, 0)))

\* the frames as Tag24.encode leaves them: under the tag's
\* unsynchronisation flag each gets the flag "unsynchronisation"
Tag24_mark(tag, frames) ==
    IF tag.version = 4 /\ "unsynchronisation" \in tag.flags
    THEN [k \in 1..Len(frames) |->
             [frames[k] EXCEPT !.flags = @ \cup {"unsynchronisation"}]]
    ELSE frames

\* Tag22.encode, Tag23.encode and Tag24.encode
encode(tag, size_hint) ==
    LET unsync == "unsynchronisation" \in tag.flags IN
    With(_prepare_frames(tag), LAMBDA p :
      IF ~p.ok THEN p
      ELSE With(Tag24_mark(tag, p.frames), LAMBDA frames :
           With(encode_frames(tag.version, frames), LAMBDA e :
             IF ~e.ok THEN RaiseE(e.err, p.warnings)
             ELSE With(IF unsync /\ tag.version \in {2, 3}
                       THEN Unsync_encode(e.val) ELSE e.val, LAMBDA framedata :
                  With(_get_size_with_padding(tag, size_hint, Len(framedata)),
                       LAMBDA size :
                  With(Syncsafe_encode(size, 4), LAMBDA ss :
                    IF ~ss.ok THEN RaiseE(ss.err, p.warnings)
                    ELSE OkE(<<73, 68, 51, tag.version, 0, IF unsync THEN 128 ELSE 0>>
                             \o ss.val \o framedata \o Zeros(size - Len(framedata)),
                             frames, p.warnings)))))))

\* ------------------------------------------------------------------------
\* fileutil.py: replace_chunk.  A file is its sequence of bytes; offsets
\* are counted from 0 as in the source.
\* ------------------------------------------------------------------------
Max(a, b) == IF a >= b THEN a ELSE b
Min(a, b) == IF a <= b THEN a ELSE b

\* the outcome of an operation on a file: the file's bytes afterwards
OkFile(data) == [ok |-> TRUE, data |-> data, err |-> ""]
RaiseFile(e, data) == [ok |-> FALSE, data |-> data, err |-> e]

\* file.seek(pos); file.write(chunk): bytes between the old end and pos
\* read as zero
file_write(data, pos, chunk) ==
    [k \in 1..Max(Len(data), pos + Len(chunk)) |->
        IF k > pos /\ k <= pos + Len(chunk) THEN chunk[k - pos]
        ELSE IF k <= Len(data) THEN data[k] ELSE 0]

\* file.truncate(size)
file_truncate(data, size) ==
    [k \in 1..size |-> IF k <= Len(data) THEN data[k] ELSE 0]

\* file.seek(pos); file.read(n)
file_read(data, pos, n) == Slice(data, pos + 1, Min(pos + n, Len(data)))

\* _copy_chunk(src, dst, length) with src at pos: the bytes copied; the
\* buffer holds more than any file here, so the loop runs at most once
_copy_chunk(src, pos, length) ==
    IF length <= 0 THEN Ok(<<>>, 0)
    ELSE IF Len(file_read(src, pos, length)) # length THEN Raise("AssertionError")
    ELSE Ok(file_read(src, pos, length), 0)

\* m.move(dest, src, count) on a mapping m
mmap_move(m, dest, src, count) ==
    IF dest < 0 \/ src < 0 \/ count < 0 \/ src + count > Len(m) \/ dest + count > Len(m)
    THEN Raise("ValueError")
    ELSE Ok([k \in 1..Len(m) |->
                IF k > dest /\ k <= dest + count THEN m[src + (k - dest)] ELSE m[k]], 0)

\* the except branch of _replace_chunk_in_place: after file.seek it builds
\* the temporary file with max_size=max_mem * (1<<20), and max_mem is a
\* name of _replace_chunk only: NameError, with the file as it is by then
_replace_chunk_by_tempfile(data) == RaiseFile("NameError", data)

\* _replace_chunk_in_place.  Whether mmap maps the file is the platform's
\* choice (mmap_works); an empty mapping is refused, and a refused
\* mapping or move ends in the except branch.
_replace_chunk_in_place(data, offset, length, chunk, oldsize, newsize, mmap_works) ==
    With(IF newsize > oldsize
         THEN file_write(data, Len(data), Zeros(Len(chunk) - length)) ELSE data,
         LAMBDA grown :
      IF ~mmap_works \/ Max(oldsize, newsize) = 0
      THEN _replace_chunk_by_tempfile(grown)
      ELSE With(mmap_move(Slice(grown, 1, Max(oldsize, newsize)), offset + Len(chunk),
                          offset + length, oldsize - offset - length), LAMBDA m :
             IF ~m.ok THEN _replace_chunk_by_tempfile(grown)
             ELSE OkFile(file_truncate(file_write(m.val, offset, chunk)
                                       \o From(grown, Max(oldsize, newsize) + 1),
                                       newsize))))

\* _replace_chunk.  named tells a file name from an open file object.
_replace_chunk(named, data, offset, length, chunk, in_place, mmap_works) ==
    LET oldsize == Len(data)
        newsize == Len(data) - length + Len(chunk)
    IN IF ~(named \/ in_place) THEN RaiseFile("AssertionError", data)
       ELSE IF length = Len(chunk) THEN OkFile(file_write(data, offset, chunk))
       ELSE IF offset + length = oldsize
            THEN OkFile(file_write(file_truncate(data, offset), offset, chunk))
       ELSE IF in_place
            THEN _replace_chunk_in_place(data, offset, length, chunk, oldsize, newsize,
                                         mmap_works)
       ELSE With(_copy_chunk(data, 0, offset), LAMBDA head :
            With(_copy_chunk(data, offset + length, oldsize - offset - length),
                 LAMBDA tail :
              IF ~head.ok THEN RaiseFile(head.err, data)
              ELSE IF ~tail.ok THEN RaiseFile(tail.err, data)
              ELSE OkFile(head.val \o chunk \o tail.val)))

\* replace_chunk: _replace_chunk inside suppress_interrupt
replace_chunk(named, data, offset, length, chunk, in_place, mmap_works) ==
    _replace_chunk(named, data, offset, length, chunk, in_place, mmap_works)

\* data[offset:offset + length] = chunk on a bytearray
slice_assign(data, offset, length, chunk) ==
    Slice(data, 1, offset) \o chunk \o From(data, offset + length + 1)

\* ------------------------------------------------------------------------
\* tags.py: detect_tag, delete_tag and Tag.write on an open file whose
\* position is pos (0 for a file opened by name)
\* ------------------------------------------------------------------------
Detected(version, offset, length) ==
    [ok |-> TRUE, err |-> "", version |-> version, offset |-> offset, length |-> length]
NotDetected(e) == [ok |-> FALSE, err |-> e, version |-> 0, offset |-> 0, length |-> 0]

\* detect_tag
detect_tag(data, pos) ==
    With(file_read(data, pos, 10), LAMBDA header :
      IF Len(header) < 10 THEN NotDetected("EOFError")
      ELSE IF Slice(header, 1, 3) # <<73, 68, 51>> THEN NotDetected("NoTagError")
      ELSE IF header[4] \notin {2, 3, 4} \/ header[5] # 0 THEN NotDetected("TagError")
      ELSE IF ~Syncsafe_decode(Slice(header, 7, 10)).ok THEN NotDetected("ValueError")
      ELSE Detected(header[4], pos,
                    Syncsafe_decode(Slice(header, 7, 10)).num + 10
                    + (IF header[4] = 4 /\ Has(header[6], _TAG24_FOOTER) THEN 10 ELSE 0)))

\* delete_tag
delete_tag(data, pos, mmap_works) ==
    With(detect_tag(data, pos), LAMBDA d :
      IF d.ok THEN replace_chunk(FALSE, data, d.offset, d.length, <<>>, TRUE, mmap_works)
      ELSE IF d.err = "NoTagError" THEN OkFile(data)
      ELSE RaiseFile(d.err, data))

\* the outcome of Tag.write: the file afterwards, the region detected
\* and the outcome of encode (not reached when encode was not called)
WriteOutcome(r, d, e) ==
    [ok |-> r.ok, err |-> r.err, data |-> r.data, offset |-> d.offset,
     length |-> d.length, enc |-> e]

\* Tag.write
Tag_write(tag, data, pos, mmap_works) ==
    With(detect_tag(data, pos), LAMBDA d :
      IF ~d.ok /\ d.err # "NoTagError"
      THEN WriteOutcome(RaiseFile(d.err, data), d, RaiseE("", <<>>))
      ELSE With(IF d.offset > 0 THEN delete_tag(data, pos, mmap_works) ELSE OkFile(data),
                LAMBDA del :
             IF ~del.ok THEN WriteOutcome(del, d, RaiseE("", <<>>))
             ELSE With(encode(tag, IF d.offset > 0 THEN 0 ELSE d.length), LAMBDA e :
                    IF ~e.ok THEN WriteOutcome(RaiseFile(e.err, del.data), d, e)
                    ELSE WriteOutcome(replace_chunk(FALSE, del.data, 0,
                                               IF d.offset > 0 THEN 0 ELSE d.length,
                                               e.val, TRUE, mmap_works), d, e))))

\* ------------------------------------------------------------------------
\* tags.py: the tag as a mapping.  tag._frames is a dict from frame id to
\* a list of frames, kept as a sequence of entries in insertion order.  A
\* key is a frame class or a string.
\* ------------------------------------------------------------------------
ClassKey(cls) == [kind |-> "class", cls |-> cls, id |-> <<>>]
StrKey(id) == [kind |-> "str", cls |-> "", id |-> id]

\* the outcome of an operation on the mapping
OkM(entries, val) == [ok |-> TRUE, entries |-> entries, val |-> val, err |-> ""]
RaiseM(e, entries) == [ok |-> FALSE, entries |-> entries, val |-> FALSE, err |-> e]

\* Tag._normalize_key: the key of tag._frames, or the exception.  A frame
\* class gives its name.  For a string the method calls the bare name
\* _is_frame_id, which is no name of the module (it is a static method of
\* Tag): NameError, whatever unknown_ok is.
_normalize_key(key, unknown_ok) ==
    IF key.kind = "class" THEN Ok(classes.ClassTable[key.cls].frameid, 0)
    ELSE Raise("NameError")

HasEntry(entries, id) == \E k \in 1..Len(entries) : entries[k].id = id
EntryOf(entries, id) == entries[CHOOSE k \in 1..Len(entries) : entries[k].id = id]

\* Tag.__len__
Tag_len(entries) == Len(Concat([k \in 1..Len(entries) |-> entries[k].frames]))

\* Tag.__getitem__: val tells that a value was returned
Tag_getitem(entries, key) ==
    With(_normalize_key(key, TRUE), LAMBDA n :
      IF ~n.ok THEN RaiseM(n.err, entries)
      ELSE IF ~HasEntry(entries, n.val) THEN RaiseM("KeyError", entries)
      ELSE IF Len(EntryOf(entries, n.val).frames) = 0 THEN RaiseM("KeyError", entries)
      ELSE OkM(entries, TRUE))

\* MutableMapping.__contains__: key in tag
Tag_contains(entries, key) ==
    With(Tag_getitem(entries, key), LAMBDA g :
      IF g.ok THEN OkM(entries, TRUE)
      ELSE IF g.err = "KeyError" THEN OkM(entries, FALSE)
      ELSE g)

\* extract_strs of TextFrame.__init__ on a string or a tuple of strings
extract_strs(value) == IF value.l = <<>> /\ value.s # <<>> THEN <<value.s>> ELSE value.l

\* known_frames[key](value): a text frame takes the strings as its text;
\* any other frame class takes the value as its frame id
Construct(cls, value) ==
    IF IsSubclass(cls, "TextFrame")
    THEN NewFrame(cls, <<NoneVal, ListVal(extract_strs(value))>>)
    ELSE MkFrame(cls, value.s, {}, -1,
                 [k \in 1..Len(classes._framespec[cls]) |-> NoneVal])

\* dict assignment: a key that is there keeps its place
PutEntry(entries, id, frames) ==
    IF HasEntry(entries, id)
    THEN [k \in 1..Len(entries) |->
             IF entries[k].id = id THEN [id |-> id, frames |-> frames] ELSE entries[k]]
    ELSE Append(entries, [id |-> id, frames |-> frames])

\* Tag.__setitem__ with a string or a tuple of strings as the value
Tag_setitem(entries, key, value) ==
    With(_normalize_key(key, FALSE), LAMBDA n :
      IF ~n.ok THEN RaiseM(n.err, entries)
      ELSE LET cls == classes.known_frame_class[n.val] IN
           IF classes._allow_duplicates[cls]
           THEN IF value.l = <<>> THEN RaiseM("ValueError", entries)
                ELSE OkM(PutEntry(entries, n.val,
                                  [k \in 1..Len(value.l) |->
                                      Construct(cls, StrVal(value.l[k]))]), FALSE)
           ELSE OkM(PutEntry(entries, n.val, <<Construct(cls, value)>>), FALSE))

\* Tag.__delitem__
Tag_delitem(entries, key) ==
    With(_normalize_key(key, TRUE), LAMBDA n :
      IF ~n.ok THEN RaiseM(n.err, entries)
      ELSE IF ~HasEntry(entries, n.val) THEN RaiseM("KeyError", entries)
      ELSE OkM(SelectSeq(entries, LAMBDA e : e.id # n.val), FALSE))

\* ------------------------------------------------------------------------
\* fileutil.py: suppress_interrupt
\* ------------------------------------------------------------------------

\* a handler that drops the signal
sigint_handler_forgets(flag) == flag

\* sigint_handler(signum, frame): the new value of interrupted
sigint_handler(flag) == TRUE

\* ------------------------------------------------------------------------
\* State.  The workbenches share the module: the primitive codecs
\* (SpecCodec), the tag pipeline (Spec), the file utilities (SpecFile),
\* the deferral of interrupts (SpecInterrupt) and the tag as a mapping
\* (SpecMapping).
\* ------------------------------------------------------------------------
VARIABLES
    cop,      \* the codec operation applied last ("none" initially)
    cdata,    \* its byte-string input
    cnum,     \* its integer input
    cwidth,   \* its width argument
    cres,     \* its outcome
    tpc,      \* position of the tag pipeline: "start", "read", "padded",
              \* "encoded", "redecoded", "converted", "keyed", "written",
              \* "serialised", "built" or "rebuilt"
    tfile,    \* the bytes handed to read_tag
    tres,     \* the outcome of read_tag(tfile); tres.tag is the tag T
    twarn,    \* the warnings emitted while read_tag(tfile) read the header
    eframe,   \* the frame whose _to_data is called
    eout,     \* the outcome of eframe._to_data()
    eafter,   \* the frame after the call
    btag,     \* a tag filled with frame objects
    benc,     \* the outcome of btag.encode()
    bres,     \* the outcome of decode_tag on the bytes btag.encode() returned
    thint,    \* the size_hint handed to T.encode (-1 for None)
    tenc,     \* the outcome of T.encode(size_hint)
    tres2,    \* the outcome of decode_tag on the bytes encode returned
    cframe,   \* the frame handed to _to_version
    cversion, \* the target version handed to _to_version
    cconv,    \* the outcome of cframe._to_version(cversion)
    korder,   \* the patterns handed to FrameOrder
    kframe,   \* the frame handed to its key method
    kkey,     \* the outcome of FrameOrder(*korder).key(kframe)
    fdata,    \* the bytes of the file handed to replace_chunk
    fmodel,   \* the bytearray the same replacements are applied to
    fmode,    \* how the file is handed over: by name or open, the
              \* in_place argument, and whether the platform maps files
    fout,     \* the outcome of the last call of replace_chunk
    wfile,    \* the bytes of the file handed to T.write
    wpos,     \* the position of that file when it is handed over open
    wout,     \* the outcome of T.write
    ipc,      \* position of the thread that runs a suppress_interrupt block
    ihandler, \* the handler installed for SIGINT
    interrupted, \* the flag of suppress_interrupt
    ilog,     \* what has happened, in order: statements of the block
              \* run, signals delivered, exceptions raised
    mtag,     \* tag._frames of a tag made with Tag23()
    mlast     \* the last operation on that tag: its kind, key and value,
              \* and its outcome

cvars == <<cop, cdata, cnum, cwidth, cres>>

kvars == <<korder, kframe, kkey>>

wvars == <<wfile, wpos, wout>>

fvars == <<fdata, fmodel, fmode, fout>>

ivars == <<ipc, ihandler, interrupted, ilog>>

mvars == <<mtag, mlast>>

\* the variables of the workbenches beside the codecs and the tag pipeline
evars == <<eframe, eout, eafter>>

bvars == <<btag, benc, bres>>

\* further variables of the tag pipeline
hvars == <<twarn, evars, bvars>>

ovars == <<fvars, ivars, mvars, hvars>>

tvars == <<tpc, tfile, tres, thint, tenc, tres2, cframe, cversion, cconv, classes,
           kvars, wvars, ovars>>

vars == <<cvars, tvars>>

CodecIdle ==
    /\ cop = "none"
    /\ cdata = <<>>
    /\ cnum = 0
    /\ cwidth = 0
    /\ cres = Ok(<<>>, 0)

\* the file replace_chunk starts from, and the mode before there is one
FirstFile == <<1, 2, 3>>
NoMode == [named |-> TRUE, in_place |-> TRUE, mmap_works |-> TRUE]

TagIdle ==
    /\ tpc = "start"
    /\ tfile = <<>>
    /\ tres = RaiseT("", Reader(1, FALSE))
    /\ twarn = <<>>
    /\ eframe = MkFrame("Frame", <<>>, {}, -1, <<>>)
    /\ eout = Raise("")
    /\ eafter = MkFrame("Frame", <<>>, {}, -1, <<>>)
    /\ btag = MkTag(0, {}, <<>>, 0, <<>>)
    /\ benc = RaiseE("", <<>>)
    /\ bres = RaiseT("", Reader(1, FALSE))
    /\ thint = -1
    /\ tenc = RaiseE("", <<>>)
    /\ tres2 = RaiseT("", Reader(1, FALSE))
    /\ cframe = MkFrame("Frame", <<>>, {}, -1, <<>>)
    /\ cversion = 0
    /\ cconv = RaiseF("")
    /\ classes = Imported
    /\ korder = <<>>
    /\ kframe = MkFrame("Frame", <<>>, {}, -1, <<>>)
    /\ kkey = Raise("")
    /\ wfile = <<>>
    /\ wpos = 0
    /\ wout = WriteOutcome(RaiseFile("", <<>>), NotDetected(""), RaiseE("", <<>>))
    /\ mtag = <<>>
    /\ mlast = [op |-> "new", key |-> ClassKey(""), value |-> NoneVal,
                out |-> OkM(<<>>, FALSE)]
    /\ ipc = "start"
    /\ ihandler = "default_int_handler"
    /\ interrupted = FALSE
    /\ ilog = <<>>
    /\ fdata = <<>>
    /\ fmodel = <<>>
    /\ fmode = NoMode
    /\ fout = RaiseFile("", <<>>)

SyncValues ==
    (0..MaxSyncValue)
    \cup {Pow2(7 * w) - 1 : w \in 1..MaxWidth}
    \cup {Pow2(7 * w) : w \in 1..(MaxWidth - 1)}
    \cup {Pow2(7 * w) + 129 : w \in 1..(MaxWidth - 1)}

CodecInit == CodecIdle /\ TagIdle

\* Syncsafe.encode(x, width=w)
SyncsafeEncode ==
    /\ cop = "none"
    /\ \E x \in SyncValues, w \in 1..MaxWidth :
        /\ cop' = "syncsafe_encode"
        /\ cnum' = x
        /\ cwidth' = w
        /\ cdata' = <<>>
        /\ cres' = Syncsafe_encode(x, w)
    /\ UNCHANGED tvars

\* Syncsafe.decode applied to the bytes Syncsafe.encode just returned
SyncsafeDecodeEncoded ==
    /\ cop = "syncsafe_encode"
    /\ cres.ok
    /\ cop' = "syncsafe_roundtrip"
    /\ cdata' = cres.val
    /\ cres' = Syncsafe_decode(cres.val)
    /\ UNCHANGED <<cnum, cwidth>>
    /\ UNCHANGED tvars

\* Syncsafe.decode(data) on arbitrary bytes
SyncsafeDecode ==
    /\ cop = "none"
    /\ \E data \in SeqsUpTo(ByteSamples, MaxLen) :
        /\ cop' = "syncsafe_decode"
        /\ cdata' = data
        /\ cnum' = 0
        /\ cwidth' = 0
        /\ cres' = Syncsafe_decode(data)
    /\ UNCHANGED tvars

\* Unsync.encode(data)
UnsyncEncode ==
    /\ cop = "none"
    /\ \E data \in SeqsUpTo(ByteSamples, MaxLen) :
        /\ cop' = "unsync_encode"
        /\ cdata' = data
        /\ cnum' = 0
        /\ cwidth' = 0
        /\ cres' = Ok(Unsync_encode(data), 0)
    /\ UNCHANGED tvars

\* Unsync.decode applied to the bytes Unsync.encode just returned
UnsyncDecodeEncoded ==
    /\ cop = "unsync_encode"
    /\ cop' = "unsync_roundtrip"
    /\ cres' = Ok(Unsync_decode(cres.val), 0)
    /\ UNCHANGED <<cdata, cnum, cwidth>>
    /\ UNCHANGED tvars

CodecNext ==
    \/ SyncsafeEncode
    \/ SyncsafeDecodeEncoded
    \/ SyncsafeDecode
    \/ UnsyncEncode
    \/ UnsyncDecodeEncoded

SpecCodec == CodecInit /\ [][CodecNext]_vars

\* ------------------------------------------------------------------------
\* Properties of the primitive codecs (checked under SpecCodec)
\* ------------------------------------------------------------------------

\* C2: for every width w >= 1 and every 0 <= x < 2^(7*w),
\* Syncsafe.encode(x, width=w) returns exactly w bytes, and Syncsafe.decode
\* of those bytes returns x.
C2_SyncsafeRoundTrip ==
    /\ (cop = "syncsafe_encode" /\ cnum < Pow2(7 * cwidth))
           => (cres.ok /\ Len(cres.val) = cwidth)
    /\ (cop = "syncsafe_roundtrip")
           => (cres.ok /\ cres.num = cnum /\ Len(cdata) = cwidth)

C2_Witness ==
    /\ cop = "syncsafe_roundtrip"
    /\ cnum = Pow2(7) + 129
    /\ cwidth = 3
    /\ cres.num = cnum

\* C3: Syncsafe.decode raises for every byte string holding a byte > 127
\* and returns a value for every byte string whose bytes are all <= 127.
C3_SyncsafeDecodeFails ==
    cop = "syncsafe_decode" =>
        (cres.ok <=> \A i \in 1..Len(cdata) : cdata[i] <= 127)

C3_Witness ==
    /\ cop = "syncsafe_decode"
    /\ Len(cdata) = 3
    /\ cdata[1] = 127
    /\ cdata[3] = 128
    /\ ~cres.ok
    /\ cres.err = "ValueError"

\* C4: Unsync.decode(Unsync.encode(data)) = data for every byte string,
\* the empty one, ones ending in 0xFF, ones holding 0xFF 0x00 and runs of
\* 0xFF included.
C4_UnsyncRoundTrip ==
    cop = "unsync_roundtrip" => cres.val = cdata

C4_Witness ==
    /\ cop = "unsync_roundtrip"
    /\ cdata = <<255, 0, 255, 255>>
    /\ cres.val = cdata

\* the stuffing rule as the format states it: a 0x00 after a 0xFF that is
\* followed by 0x00 or by a byte >= 0xE0, or that ends the input
RECURSIVE StuffedByRule(_, _)
StuffedByRule(data, i) ==
    IF i > Len(data) THEN <<>>
    ELSE <<data[i]>>
         \o (IF data[i] = 255
                 /\ (i = Len(data) \/ data[i + 1] = 0 \/ data[i + 1] >= 224)
              THEN <<0>> ELSE <<>>)
         \o StuffedByRule(data, i + 1)

\* C5: Unsync.encode inserts one 0x00 after a 0xFF exactly when that 0xFF
\* is followed by 0x00 or by a byte >= 0xE0, or is the last byte; nothing
\* is inserted anywhere else and the input bytes are kept in order.
C5_UnsyncInsertRule ==
    cop = "unsync_encode" => cres.val = StuffedByRule(cdata, 1)

\* ------------------------------------------------------------------------
\* The tag pipeline workbench: a tag is read from bytes, its padding
\* attributes may be set, it is encoded with a size hint and the result
\* decoded again; or one frame is converted to a version.
\* ------------------------------------------------------------------------
\* a frame on the wire: header and body
WireFrame(version, id, bflags, body) ==
    IF version = 2 THEN id \o Int8_encode(Len(body), 3).val \o body
    ELSE IF version = 3
         THEN id \o Int8_encode(Len(body), 4).val \o Int8_encode(bflags, 2).val \o body
    ELSE id \o Syncsafe_encode(Len(body), 4).val \o Int8_encode(bflags, 2).val \o body

\* a tag on the wire: header, frames (unsynchronised as a whole in
\* versions 2 and 3 when the header says so) and padding
WireTag(version, hflags, frames, padding) ==
    With(IF Has(hflags, 128) /\ version \in {2, 3}
         THEN Unsync_encode(Concat(frames)) ELSE Concat(frames), LAMBDA body :
       <<73, 68, 51, version, 0, hflags>>
       \o Syncsafe_encode(Len(body) + padding, 4).val \o body \o Zeros(padding))

Id_TIT2 == <<84, 73, 84, 50>>
Id_COMM == <<67, 79, 77, 77>>
Id_PCNT == <<80, 67, 78, 84>>
Id_SIGN == <<83, 73, 71, 78>>
Id_XABC == <<88, 65, 66, 67>>
Id_APIC == <<65, 80, 73, 67>>
Id_TPE1 == <<84, 80, 69, 49>>
Id_TXXX == <<84, 88, 88, 88>>
Id_TT2 == <<84, 84, 50>>
Id_COM == <<67, 79, 77>>
Id_CNT == <<67, 78, 84>>
Id_XYZ == <<88, 89, 90>>

Body_TextA == <<0, 97>>                      \* Latin-1 "a"
Body_TextB == <<1, 255, 254, 98, 0>>         \* UTF-16 "b"
Body_CommX == <<0, 101, 110, 103, 0, 120>>   \* Latin-1, "eng", "", "x"
Body_CommY == <<0, 101, 110, 103, 0, 255>>   \* Latin-1, "eng", "", "\xff"
Body_Count1 == <<0, 0, 0, 1>>
Body_Count2 == <<0, 0, 255, 2>>
Body_Sign == <<1, 9>>
Body_Opaque == <<1, 2>>
Body_Pic == <<0, 0, 3, 0, 1>>                \* Latin-1, mime "", type 3, desc "", data
Body_UserText == <<0, 0, 97>>                \* Latin-1, description "", value "a"

\* the frames the input tags are built from, per version
Palette(version) ==
    IF version = 2
    THEN {WireFrame(2, Id_TT2, 0, Body_TextA), WireFrame(2, Id_TT2, 0, Body_TextB),
          WireFrame(2, Id_COM, 0, Body_CommX), WireFrame(2, Id_COM, 0, Body_CommY),
          WireFrame(2, Id_CNT, 0, Body_Count1), WireFrame(2, Id_CNT, 0, Body_Count2),
          WireFrame(2, Id_XYZ, 0, Body_Opaque)}
    ELSE {WireFrame(version, Id_TIT2, 0, Body_TextA),
          WireFrame(version, Id_TIT2, 0, Body_TextB),
          WireFrame(version, Id_COMM, 0, Body_CommX),
          WireFrame(version, Id_COMM, 0, Body_CommY),
          WireFrame(version, Id_PCNT, 0, Body_Count1),
          WireFrame(version, Id_PCNT, 0, Body_Count2),
          WireFrame(version, Id_SIGN, 0, Body_Sign),
          WireFrame(version, Id_XABC, 0, Body_Opaque)}

\* the frames APIC, TPE1, TIT2 and TXXX on the wire
ExampleFrames(version) ==
    <<WireFrame(version, Id_APIC, 0, Body_Pic),
      WireFrame(version, Id_TPE1, 0, Body_TextA),
      WireFrame(version, Id_TIT2, 0, Body_TextA),
      WireFrame(version, Id_TXXX, 0, Body_UserText)>>

\* tags holding these four frames, in every order
ExampleWires ==
    {WireTag(v, 0, [k \in 1..4 |-> ExampleFrames(v)[p[k]]], 0) :
        v \in {3, 4}, p \in Permutations(1..4)}

\* a tag of one title frame, whole
OneTitle(version) == WireTag(version, 0, <<WireFrame(version, Id_TIT2, 0, Body_TextA)>>, 0)

\* Latin-1 texts: "Hello", "a", "\xff", "\xe9t\xe9"
Str_Hello == <<72, 101, 108, 108, 111>>
Latin1Texts == {Str_Hello, <<97>>, <<255>>, <<233, 116, 233>>}

\* the minimal version 3 tag: the header with flags 0 and the size of the
\* frame bytes, and one TIT2 frame of the encoding byte 0 and the text
MinimalWire(text) == WireTag(3, 0, <<WireFrame(3, Id_TIT2, 0, <<0>> \o text)>>, 0)

\* frame ids with no registered class: text-like, URL-like and other
Id_TZZZ == <<84, 90, 90, 90>>
Id_WZZZ == <<87, 90, 90, 90>>
Id_TZZ == <<84, 90, 90>>
Id_WZZ == <<87, 90, 90>>
Body_Url == <<97>>                           \* "a"

\* tags of one frame with an unregistered id, per version
UnknownWires ==
    {WireTag(2, 0, <<WireFrame(2, f[1], 0, f[2])>>, 0) :
        f \in {<<Id_TZZ, Body_TextA>>, <<Id_WZZ, Body_Url>>, <<Id_XYZ, Body_Opaque>>}}
    \cup {WireTag(v, 0, <<WireFrame(v, f[1], 0, f[2])>>, 0) :
        v \in {3, 4},
        f \in {<<Id_TZZZ, Body_TextA>>, <<Id_WZZZ, Body_Url>>, <<Id_XABC, Body_Opaque>>}}

\* frames that fail while their flags are interpreted or their fields
\* decoded, as <<flag bits, body>>: an unknown format bit, the encryption
\* flag, the grouping flag on an empty body, the compression flag, (in
\* version 4) the data length indicator on an empty body, an invalid
\* encoding byte and a UTF-16 text of odd length
BadFrames(version) ==
    IF version = 2 THEN {<<0, <<4, 97>>>>, <<0, <<1, 255, 254, 98>>>>}
    ELSE IF version = 3
    THEN {<<1, Body_TextA>>, <<_FRAME23_FORMAT_ENCRYPTED, Body_TextA>>,
          <<_FRAME23_FORMAT_GROUP, <<>>>>, <<_FRAME23_FORMAT_COMPRESSED, Body_TextA>>,
          <<0, <<4, 97>>>>, <<0, <<1, 255, 254, 98>>>>}
    ELSE {<<4096, Body_TextA>>, <<_FRAME24_FORMAT_ENCRYPTED, Body_TextA>>,
          <<_FRAME24_FORMAT_GROUP, <<>>>>, <<_FRAME24_FORMAT_DATA_LENGTH_INDICATOR, <<>>>>,
          <<0, <<4, 97>>>>, <<0, <<1, 255, 254, 98>>>>}

\* the artist frame id of the version
ArtistId(version) == IF version = 2 THEN <<84, 80, 49>> ELSE Id_TPE1
TitleId(version) == IF version = 2 THEN Id_TT2 ELSE Id_TIT2

\* a tag of a failing artist frame followed by a sound title frame
FailureWire(version, bad) ==
    WireTag(version, 0, <<WireFrame(version, ArtistId(version), bad[1], bad[2]),
                          WireFrame(version, TitleId(version), 0, Body_TextA)>>, 0)
FailureWires == {FailureWire(v, b) : v \in {2}, b \in BadFrames(2)}
                \cup {FailureWire(3, b) : b \in BadFrames(3)}
                \cup {FailureWire(4, b) : b \in BadFrames(4)}

\* what follows the title frame in a tag whose frame stream ends before
\* the tag does: padding, or a frame under the ids "tit2", "TI  ", "TIT "
\* and "TIT\n" (version 2: "tt2", "TT ")
StreamTails(version) ==
    IF version = 2
    THEN {Zeros(6), WireFrame(2, <<116, 116, 50>>, 0, Body_TextA),
          WireFrame(2, <<84, 84, 32>>, 0, Body_TextA)}
    ELSE {Zeros(10), WireFrame(version, <<116, 105, 116, 50>>, 0, Body_TextA),
          WireFrame(version, <<84, 73, 32, 32>>, 0, Body_TextA),
          WireFrame(version, <<84, 73, 84, 32>>, 0, Body_TextA),
          WireFrame(version, <<84, 73, 84, 10>>, 0, Body_TextA)}

\* a tag of a title frame and such a tail
StreamEndWire(version, tail) ==
    WireTag(version, 0, <<WireFrame(version, TitleId(version), 0, Body_TextA), tail>>, 0)
StreamEndWires == {StreamEndWire(v, t) : v \in {2}, t \in StreamTails(2)}
                  \cup {StreamEndWire(3, t) : t \in StreamTails(3)}
                  \cup {StreamEndWire(4, t) : t \in StreamTails(4)}

\* tags of one title frame whose header flags hold bits the version does
\* not define (1, 8), and for version 2 the compression bit (64, 65)
HeaderFlagWires ==
    {WireTag(v, hf, <<WireFrame(v, TitleId(v), 0, Body_TextA)>>, 0) :
        v \in {2, 3, 4}, hf \in {1, 8}}
    \cup {WireTag(2, hf, <<WireFrame(2, Id_TT2, 0, Body_TextA)>>, 0) : hf \in {64, 65}}

\* tags of two text frames of one unregistered id
TwoUnknownTexts ==
    {WireTag(v, 0, <<WireFrame(v, Id_TZZZ, 0, Body_TextA),
                     WireFrame(v, Id_TZZZ, 0, Body_TextB)>>, 0) : v \in {3, 4}}

\* damaged input files: shorter than a header, cut in the middle of a
\* frame, a header size byte and a frame size byte above 127, bytes that
\* are no tag, and an unsupported version
BrokenWires ==
    {<<>>, <<73, 68, 51>>, <<73, 68, 51, 3, 0, 0, 0, 0, 0>>}
    \cup {Slice(OneTitle(v), 1, Len(OneTitle(v)) - 1) : v \in {2, 3, 4}}
    \cup {Slice(OneTitle(v), 1, 12) : v \in {2, 3, 4}}
    \cup {<<73, 68, 51, v, 0, 0, 0, 0, 0, 128>> : v \in {2, 3, 4}}
    \cup {<<73, 68, 51, 4, 0, 0, 0, 0, 0, 12>> \o Id_TIT2 \o <<0, 0, 0, 128, 0, 0>> \o Body_TextA}
    \cup {<<77, 80, 51, 3, 0, 0, 0, 0, 0, 0>>, <<73, 68, 51, 5, 0, 0, 0, 0, 0, 0>>,
          <<73, 68, 51, 3, 1, 0, 0, 0, 0, 0>>}

\* version 4 tags of one title frame with the frame's unsynchronised flag:
\* the text "\xffA" byte-stuffed, without and with the data length
\* indicator the encoder adds, under either value of the tag's flag
Body_Stuffed == <<0, 255, 0, 65>>
Body_Unstuffed == <<0, 255, 65>>
UnsyncFrameWires ==
    {WireTag(4, hf, <<WireFrame(4, Id_TIT2, _FRAME24_FORMAT_UNSYNCHRONISED, Body_Stuffed)>>, 0) :
        hf \in {0, 128}}
    \cup {WireTag(4, hf, <<WireFrame(4, Id_TIT2,
                                     _FRAME24_FORMAT_UNSYNCHRONISED
                                     + _FRAME24_FORMAT_DATA_LENGTH_INDICATOR,
                                     Syncsafe_encode(Len(Body_Unstuffed), 4).val
                                     \o Body_Stuffed)>>, 0) :
            hf \in {0, 128}}

\* bytes that follow or precede a tag in a file
Audio == <<255, 251, 144, 0>>

\* files of a tag without padding followed by audio: the tag holds one
\* comment frame, whose body ends in "x" or in 0xFF
CommId(version) == IF version = 2 THEN Id_COM ELSE Id_COMM
TrailingWires ==
    {WireTag(v, hf, <<WireFrame(v, CommId(v), 0, body)>>, 0) \o Audio :
        v \in {2, 3}, hf \in {0, 128}, body \in {Body_CommX, Body_CommY}}
    \cup {WireTag(4, 0, <<WireFrame(4, Id_COMM, 0, body)>>, 0) \o Audio :
            body \in {Body_CommX, Body_CommY}}

\* such files whose only frame declares a size that reaches over the end
\* of the tag to the end of the audio
OversizeWire(version, hf) ==
    With(WireTag(version, hf, <<WireFrame(version, TitleId(version), 0, Body_TextA)>>, 0),
         LAMBDA w :
            [w EXCEPT ![IF version = 2 THEN 16 ELSE 18] = Len(Body_TextA) + Len(Audio)]
            \o Audio)
OversizeWires ==
    {OversizeWire(v, hf) : v \in {2, 3}, hf \in {0, 128}} \cup {OversizeWire(4, 0)}

\* the input files: tags of up to MaxFrames frames, with and without the
\* unsynchronisation header flag, the tags of four frames, and the
\* damaged files
Wires ==
    {WireTag(v, hf, fs, 0) :
        v \in {2}, hf \in {0, 128}, fs \in SeqsUpTo(Palette(2), MaxFrames)}
    \cup {WireTag(3, hf, fs, 0) : hf \in {0, 128}, fs \in SeqsUpTo(Palette(3), MaxFrames)}
    \cup {WireTag(4, hf, fs, 0) : hf \in {0, 128}, fs \in SeqsUpTo(Palette(4), MaxFrames)}
    \cup ExampleWires
    \cup BrokenWires
    \cup {MinimalWire(t) : t \in Latin1Texts}
    \cup UnknownWires
    \cup FailureWires
    \cup StreamEndWires
    \cup HeaderFlagWires
    \cup TwoUnknownTexts
    \cup UnsyncFrameWires
    \cup TrailingWires
    \cup OversizeWires

\* the frame order of the tags: FrameOrder(TIT2, "T.*", TXXX)
Order == <<ClassPattern("TIT2"), RePattern(<<84>>), ClassPattern("TXXX")>>

\* the values given to padding_max and padding_default, and the hints
PaddingChoices == {<<0, padding_default>>, <<0, 0>>, <<HintBig * 2, 0>>}
Hints == {-1, 0, HintBig}

\* the frames handed to _to_version: one per registered class, built
\* without field values, and pictures with the formats the picture
\* conversions tell apart
ConvertFrames ==
    {NewFrame(c, [k \in 1..Len(classes._framespec[c]) |-> NoneVal]) :
        c \in classes.known_frames \ {"APIC", "PIC"}}
    \cup {NewFrame("APIC", <<IntVal(0), StrVal(m), IntVal(3), StrVal(<<>>), StrVal(<<1>>)>>) :
            m \in {Str_image_png, Str_image_jpeg, <<105, 109, 97, 103, 101, 47, 103, 105, 102>>}}
    \cup {NewFrame("PIC", <<IntVal(0), StrVal(m), IntVal(3), StrVal(<<>>), StrVal(<<1>>)>>) :
            m \in {Str_PNG, Str_JPG, <<71, 73, 70>>}}

\* the title frames handed to _to_data: no codec chosen, Latin-1, UTF-16
\* and UTF-8, with the texts "a", "\u20ac", both, and "\ud800"
ToDataFrames ==
    {NewFrame("TIT2", <<e, ListVal(t)>>) :
        e \in {NoneVal, IntVal(0), IntVal(1), IntVal(3)},
        t \in {<<<<97>>>>, <<<<8364>>>>, <<<<97>>, <<8364>>>>, <<<<55296>>>>}}

\* the frame objects a tag is filled with: pictures of both schemas with
\* a format that has an equivalent and one that has none, a title, and a
\* recording time (a schema of version 4 only)
BuildPalette ==
    {NewFrame("APIC", <<IntVal(0), StrVal(m), IntVal(3), StrVal(<<>>), StrVal(<<1>>)>>) :
        m \in {Str_image_png, <<105, 109, 97, 103, 101, 47, 103, 105, 102>>}}
    \cup {NewFrame("PIC", <<IntVal(0), StrVal(m), IntVal(3), StrVal(<<>>), StrVal(<<1>>)>>) :
            m \in {Str_PNG, <<71, 73, 70>>}}
    \cup {NewFrame("TIT2", <<IntVal(0), ListVal(<<<<97>>>>)>>),
          NewFrame("TDRC", <<IntVal(0), ListVal(<<<<50>>>>)>>)}

\* the status flags of a frame
StatusFlags == {"discard_on_tag_alter", "discard_on_file_alter", "read_only"}

\* tags of version 3 and 4 that hold one title frame with status flags
StatusTags ==
    {MkTag(v, {}, <<MkFrame("TIT2", Id_TIT2, s, -1, <<IntVal(0), ListVal(<<<<97>>>>)>>)>>,
           0, Order) :
        v \in {3, 4}, s \in SUBSET StatusFlags}

\* tags of each version filled with up to two of these frames; the frames
\* of one id are kept together, as the tag's dictionary keeps them
BuiltTags ==
    {MkTag(v, {}, Values(fs), 0, Order) :
        v \in {2, 3, 4}, fs \in SeqsUpTo(BuildPalette, 2)}
    \cup StatusTags

Init == CodecIdle /\ TagIdle

\* read_tag(file)
ReadTag ==
    /\ tpc = "start"
    /\ \E w \in Wires :
        /\ tfile' = w
        /\ tres' = read_tag(w, Order)
        /\ twarn' = read_tag_warnings(w)
    /\ tpc' = "read"
    /\ UNCHANGED <<thint, tenc, tres2, cframe, cversion, cconv>>
    /\ UNCHANGED cvars
    /\ UNCHANGED classes
    /\ UNCHANGED kvars
    /\ UNCHANGED wvars
    /\ UNCHANGED <<fvars, ivars, mvars, evars, bvars>>

\* tag.padding_max = pm; tag.padding_default = pd
SetPadding ==
    /\ tpc = "read"
    /\ tres.ok
    /\ \E p \in PaddingChoices :
        tres' = [tres EXCEPT !.tag.padding_max = p[1], !.tag.padding_default = p[2]]
    /\ tpc' = "padded"
    /\ UNCHANGED <<tfile, thint, tenc, tres2, cframe, cversion, cconv>>
    /\ UNCHANGED cvars
    /\ UNCHANGED classes
    /\ UNCHANGED kvars
    /\ UNCHANGED wvars
    /\ UNCHANGED ovars

\* the frames of the tag after encode: Tag24.encode sets a flag on the
\* frame objects it serialises, and those that merge and conversion
\* passed through are the tag's own
AfterEncode(tag) ==
    With(tag.version = 4 /\ "unsynchronisation" \in tag.flags
         /\ _prepare_frames(tag).ok, LAMBDA reached :
    LET marked(k) ==
            /\ reached
            /\ _in_version(tag.frames[k].cls, {4})
            /\ LET g == WithId(tag.frames, tag.frames[k].frameid)
               IN IF Len(g) = 1 THEN TRUE
                  ELSE IF IsSubclass(tag.frames[k].cls, "TextFrame") THEN FALSE
                  ELSE IF classes._allow_duplicates[tag.frames[k].cls] THEN TRUE
                  ELSE \A j \in (k + 1)..Len(tag.frames) :
                          tag.frames[j].frameid # tag.frames[k].frameid
    IN [tag EXCEPT !.frames =
           [k \in 1..Len(tag.frames) |->
               IF marked(k)
               THEN [tag.frames[k] EXCEPT !.flags = @ \cup {"unsynchronisation"}]
               ELSE tag.frames[k]]])

\* data = tag.encode(size_hint=h)
Encode ==
    /\ tpc \in {"read", "padded"}
    /\ tres.ok
    /\ \E h \in Hints :
        /\ thint' = h
        /\ tenc' = encode(tres.tag, h)
    /\ tres' = [tres EXCEPT !.tag = AfterEncode(tres.tag)]
    /\ tpc' = "encoded"
    /\ UNCHANGED <<tfile, tres2, cframe, cversion, cconv>>
    /\ UNCHANGED cvars
    /\ UNCHANGED classes
    /\ UNCHANGED kvars
    /\ UNCHANGED wvars
    /\ UNCHANGED ovars

\* tag2 = decode_tag(data)
DecodeEncoded ==
    /\ tpc = "encoded"
    /\ tenc.ok
    /\ tres2' = read_tag(tenc.val, Order)
    /\ tpc' = "redecoded"
    /\ UNCHANGED <<tfile, tres, thint, tenc, cframe, cversion, cconv>>
    /\ UNCHANGED cvars
    /\ UNCHANGED classes
    /\ UNCHANGED kvars
    /\ UNCHANGED wvars
    /\ UNCHANGED ovars

\* frame._to_version(version)
Convert ==
    /\ tpc = "start"
    /\ \E f \in ConvertFrames, v \in {2, 3, 4} :
        /\ cframe' = f
        /\ cversion' = v
        /\ cconv' = _to_version(f, v)
    /\ tpc' = "converted"
    /\ UNCHANGED <<tfile, tres, thint, tenc, tres2>>
    /\ UNCHANGED cvars
    /\ UNCHANGED classes
    /\ UNCHANGED kvars
    /\ UNCHANGED wvars
    /\ UNCHANGED ovars

\* frame._to_data()
ToData ==
    /\ tpc = "start"
    /\ \E f \in ToDataFrames :
        /\ eframe' = f
        /\ eout' = _to_data(f)
        /\ eafter' = AfterToData(f)
    /\ tpc' = "serialised"
    /\ UNCHANGED <<tfile, tres, thint, tenc, tres2, cframe, cversion, cconv>>
    /\ UNCHANGED cvars
    /\ UNCHANGED classes
    /\ UNCHANGED kvars
    /\ UNCHANGED wvars
    /\ UNCHANGED <<fvars, ivars, mvars, twarn, bvars>>

\* tag = TagNN(); tag[cls] = frames; tag.encode()
EncodeBuilt ==
    /\ tpc = "start"
    /\ \E t \in BuiltTags :
        /\ btag' = t
        /\ benc' = encode(t, -1)
    /\ tpc' = "built"
    /\ UNCHANGED <<tfile, tres, thint, tenc, tres2, cframe, cversion, cconv>>
    /\ UNCHANGED cvars
    /\ UNCHANGED classes
    /\ UNCHANGED kvars
    /\ UNCHANGED wvars
    /\ UNCHANGED <<fvars, ivars, mvars, twarn, evars, bres>>

\* tag2 = decode_tag(data) on the bytes btag.encode() returned
DecodeBuilt ==
    /\ tpc = "built"
    /\ benc.ok
    /\ bres' = read_tag(benc.val, Order)
    /\ tpc' = "rebuilt"
    /\ UNCHANGED <<tfile, tres, thint, tenc, tres2, cframe, cversion, cconv>>
    /\ UNCHANGED cvars
    /\ UNCHANGED classes
    /\ UNCHANGED kvars
    /\ UNCHANGED wvars
    /\ UNCHANGED <<fvars, ivars, mvars, twarn, evars, btag, benc>>

\* the files a tag is written to, with the position they are handed over
\* at: the file the tag was read from with audio after it, the same
\* behind other bytes and positioned at the tag, the same cut short,
\* files without a tag (long and short), and a file with a tag of a
\* version that is not supported
WriteTargets(file) ==
    {<<file \o Audio, 0>>,
     <<Audio \o file \o Audio, Len(Audio)>>,
     <<Slice(file, 1, Len(file) - 1), 0>>,
     <<Audio \o Audio \o Audio, 0>>,
     <<Audio, 0>>,
     <<<<73, 68, 51, 5, 0, 0, 0, 0, 0, 0>> \o Audio, 0>>}

\* tag.write(file)
WriteTag ==
    /\ tpc = "read"
    /\ tres.ok
    /\ \E t \in WriteTargets(tfile), mmap_works \in BOOLEAN :
        /\ wfile' = t[1]
        /\ wpos' = t[2]
        /\ wout' = Tag_write(tres.tag, t[1], t[2], mmap_works)
        /\ tres' = IF wout'.enc.ok \/ wout'.enc.err # ""
                   THEN [tres EXCEPT !.tag = AfterEncode(tres.tag)] ELSE tres
    /\ tpc' = "written"
    /\ UNCHANGED <<tfile, thint, tenc, tres2, cframe, cversion, cconv>>
    /\ UNCHANGED cvars
    /\ UNCHANGED classes
    /\ UNCHANGED kvars
    /\ UNCHANGED ovars

\* the pattern lists handed to FrameOrder: frame classes and regular
\* expressions "T.*" and "TP.*", up to MaxPatterns of them
PatternPalette ==
    {ClassPattern("TIT2"), ClassPattern("TXXX"), ClassPattern("TT2"),
     RePattern(<<84>>), RePattern(<<84, 80>>)}
PatternLists == SeqsUpTo(PatternPalette, MaxPatterns)

\* the frames handed to FrameOrder.key: frames of registered classes, an
\* unknown text frame and an unknown opaque frame
KeyFrames ==
    {NewFrame(c, [k \in 1..Len(classes._framespec[c]) |-> NoneVal]) :
        c \in {"TIT2", "TT2", "TPE1", "TP1", "TXXX", "TXX", "APIC", "PIC", "COMM"}}
    \cup {MkFrame("TextFrame", <<84, 80, 90, 90>>, {"unknown"}, -1, <<NoneVal, NoneVal>>),
          MkFrame("UnknownFrame", Id_XABC, {"unknown"}, -1, <<NoneVal>>)}

\* key = FrameOrder(*patterns).key(frame)
SortKey ==
    /\ tpc = "start"
    /\ \E ps \in PatternLists, f \in KeyFrames :
        /\ korder' = ps
        /\ kframe' = f
        /\ kkey' = IF FrameOrder_init(ps) # "" THEN Raise(FrameOrder_init(ps))
                   ELSE Ok(<<>>, FrameOrder_key(ps, f))
    /\ tpc' = "keyed"
    /\ UNCHANGED <<tfile, tres, thint, tenc, tres2, cframe, cversion, cconv>>
    /\ UNCHANGED cvars
    /\ UNCHANGED classes
    /\ UNCHANGED wvars
    /\ UNCHANGED ovars

Next ==
    \/ ReadTag
    \/ SetPadding
    \/ Encode
    \/ DecodeEncoded
    \/ Convert
    \/ SortKey
    \/ WriteTag
    \/ ToData
    \/ EncodeBuilt
    \/ DecodeBuilt

Spec == Init /\ [][Next]_vars

\* ------------------------------------------------------------------------
\* Properties of the tag pipeline
\* ------------------------------------------------------------------------
\* Frame.__eq__(a, b); the group byte is part of the flags
FrameEq(a, b) ==
    /\ IsSubclass(b.cls, a.cls)
    /\ a.frameid = b.frameid
    /\ a.flags = b.flags /\ a.grp = b.grp
    /\ classes.FramespecOwner[a.cls] = classes.FramespecOwner[b.cls]
    /\ a.vals = b.vals

\* the frame ids of a frame sequence
IdSet(frames) == {frames[k].frameid : k \in 1..Len(frames)}

\* two tags equal field for field: the same frame ids, the same number of
\* frames per id, and equal frames position by position
TagEq(t, u) ==
    /\ IdSet(t.frames) = IdSet(u.frames)
    /\ \A id \in IdSet(t.frames) :
          LET a == WithId(t.frames, id)
              b == WithId(u.frames, id)
          IN /\ Len(a) = Len(b)
             /\ \A k \in 1..Len(a) : k <= Len(b) => FrameEq(a[k], b[k])

\* the tag was decoded from well-formed bytes: the read succeeded, no frame
\* failed to parse, every frame of a registered schema is valid for the
\* tag's version, and only schemas that permit duplicates occur twice
WellFormed(r) ==
    /\ r.ok
    /\ \A k \in 1..Len(r.tag.frames) :
          LET f == r.tag.frames[k] IN
          /\ f.cls # "ErrorFrame"
          /\ "unknown" \in f.flags \/ _in_version(f.cls, {r.tag.version})
          /\ Len(WithId(r.tag.frames, f.frameid)) > 1 => classes._allow_duplicates[f.cls]

\* C1: for a tag T decoded from well-formed bytes, with padding_max = 0,
\* T.encode(size_hint=0) succeeds and decoding its result yields a tag
\* equal to T field for field.
C1_TagRoundTrip ==
    (WellFormed(tres) /\ tres.tag.padding_max = 0 /\ thint = 0) =>
        /\ tpc = "encoded" => tenc.ok
        /\ tpc = "redecoded" => tres2.ok /\ TagEq(tres.tag, tres2.tag)

\* the bytes of the tag without padding, as testPadding obtains them:
\* padding_max = padding_default = 0 and no hint
Unpadded(tag) == encode([tag EXCEPT !.padding_max = 0, !.padding_default = 0], -1)

\* C6: when the exact encoded size s (header included) and the hint h
\* satisfy s < h and h - s <= padding_max, encode(size_hint=h) returns
\* exactly h bytes: the unpadded frames followed by zero padding.
C6_AcceptedHintSize ==
    (tpc \in {"encoded", "redecoded"} /\ tenc.ok /\ thint # -1) =>
        LET u == Unpadded(tres.tag).val
            s == Len(u)
        IN (s < thint /\ thint - s <= tres.tag.padding_max) =>
              /\ Len(tenc.val) = thint
              /\ Slice(tenc.val, 11, s) = From(u, 11)
              /\ From(tenc.val, s + 1) = Zeros(thint - s)

\* C7: with padding_max = 0, encode returns exactly the unpadded encoded
\* size of the tag, whatever size_hint is passed.
C7_ExactSizing ==
    (tpc \in {"encoded", "redecoded"} /\ tenc.ok /\ tres.tag.padding_max = 0) =>
        Len(tenc.val) = Len(Unpadded(tres.tag).val)

\* the frames of one id that the tag holds, and those that encode wrote
Held(id) == WithId(tres.tag.frames, id)
Written(id) == WithId(tenc.frames, id)

\* encode has returned
Encoded == tpc \in {"encoded", "redecoded"} /\ tenc.ok

\* the frames of the id are all of one schema, valid for the tag's version
ValidGroup(id) ==
    \A k \in 1..Len(Held(id)) :
        /\ Held(id)[k].cls = Held(id)[1].cls
        /\ _in_version(Held(id)[k].cls, {tres.tag.version})

DuplicateWarned(id) ==
    \E k \in 1..Len(tenc.warnings) : tenc.warnings[k] = Warning("duplicate", id)

V4Only ==
    {"TSST", "TMCL", "TIPL", "TMOO", "TPRO", "TDEN", "TDOR", "TDRC", "TDRL",
     "TDTG", "TSOA", "TSOP", "TSOT", "SIGN", "SEEK", "ASPI"}

\* C10: for the schemas that convert by Frame._to_version, the conversion
\* raises IncompatibleFrameError whenever the frame's schema is not valid
\* for the target, the target is not 2 with a registered v2.2 sibling, and
\* the frame is not a v2.2 frame whose structural parent is valid for the
\* target; in particular every frame of the version-4-only schemas raises
\* it when converted to version 3.
C10_IncompatibleConversion ==
    tpc = "converted" =>
        LET c == cframe.cls
            base == classes.ClassTable[c].base
            raised == ~cconv.ok /\ cconv.err = "IncompatibleFrameError"
        IN /\ (/\ classes.ToVersionOwner[c] = "Frame"
               /\ ~_in_version(c, {cversion})
               /\ ~(cversion = 2 /\ has_v2_frame(c))
               /\ ~(_in_version(c, {2}) /\ IsSubclass(base, "Frame")
                      /\ _in_version(base, {cversion}))) => raised
           /\ (c \in V4Only /\ cversion = 3) => raised

\* ------------------------------------------------------------------------
\* Frame ordering
\* ------------------------------------------------------------------------
\* the frame ids of a sequence of frames, in order
IdsOf(frames) == [k \in 1..Len(frames) |-> frames[k].frameid]

\* the positions (counted from 1) of the class patterns naming cls
ClassPositions(patterns, cls) ==
    {k \in 1..Len(patterns) : patterns[k].kind = "class" /\ patterns[k].cls = cls}

\* the positions of the text patterns that match the frame id
TextPositions(patterns, frameid) ==
    {k \in 1..Len(patterns) :
        /\ patterns[k].kind = "re"
        /\ Len(frameid) >= Len(patterns[k].prefix)
        /\ \A j \in 1..Len(patterns[k].prefix) : frameid[j] = patterns[k].prefix[j]}

\* the tag read holds exactly APIC, TPE1, TIT2 and TXXX, one frame each
HoldsExample ==
    /\ tres.ok
    /\ Len(tres.tag.frames) = 4
    /\ IdSet(tres.tag.frames) = {Id_APIC, Id_TPE1, Id_TIT2, Id_TXXX}

SortedExample == <<Id_TIT2, Id_TPE1, Id_TXXX, Id_APIC>>

C12_EmptyFrameOrder ==
    (tpc = "keyed" /\ korder = <<>>) =>
        /\ kkey.ok
        /\ \A f \in KeyFrames : FrameOrder_key(korder, f) = kkey.num

\* ------------------------------------------------------------------------
\* Outcome of a read
\* ------------------------------------------------------------------------

\* C13: reading any byte sequence either returns a tag or raises
\* NoTagError or TagError; no other exception escapes the read.
C13_ReadOutcomeTotal ==
    tpc = "read" => (tres.ok \/ tres.err \in {"NoTagError", "TagError"})

\* ------------------------------------------------------------------------
\* The file utilities (SpecFile)
\* ------------------------------------------------------------------------

\* the chunks written
Chunks == {<<>>, <<7>>, <<7, 8>>}

\* testReplaceChunk creates the file and the matching bytearray, and
\* fixes in_place for the calls that follow; the file is handed over by
\* name or as an open file
CreateFile ==
    /\ ~fout.ok /\ fout.err = ""
    /\ fdata' = FirstFile
    /\ fmodel' = FirstFile
    /\ \E named \in BOOLEAN, in_place \in BOOLEAN, mmap_works \in BOOLEAN :
          fmode' = [named |-> named, in_place |-> in_place, mmap_works |-> mmap_works]
    /\ fout' = OkFile(FirstFile)
    /\ UNCHANGED cvars
    /\ UNCHANGED <<tpc, tfile, tres, thint, tenc, tres2, cframe, cversion, cconv, classes>>
    /\ UNCHANGED hvars
    /\ UNCHANGED kvars
    /\ UNCHANGED wvars
    /\ UNCHANGED ivars
    /\ UNCHANGED mvars

\* replace_both(data, filename, offset, length, chunk, in_place) of
\* testReplaceChunk: the bytearray is changed, then the file.  An
\* exception ends the sequence of calls.
ReplaceChunk ==
    /\ fout.ok
    /\ \E offset \in 0..Len(fdata), chunk \in Chunks :
        \E length \in 0..(Len(fdata) - offset) :
            /\ Len(fdata) - length + Len(chunk) <= MaxFileLen
            /\ fmodel' = slice_assign(fmodel, offset, length, chunk)
            /\ fout' = replace_chunk(fmode.named, fdata, offset, length, chunk,
                                     fmode.in_place, fmode.mmap_works)
            /\ fdata' = fout'.data
    /\ UNCHANGED fmode
    /\ UNCHANGED cvars
    /\ UNCHANGED <<tpc, tfile, tres, thint, tenc, tres2, cframe, cversion, cconv, classes>>
    /\ UNCHANGED hvars
    /\ UNCHANGED kvars
    /\ UNCHANGED wvars
    /\ UNCHANGED ivars
    /\ UNCHANGED mvars

FileNext == CreateFile \/ ReplaceChunk

SpecFile == Init /\ [][FileNext]_vars

\* C15: after any sequence of calls of replace_chunk with offset + length
\* within the file, in place or not, with a chunk shorter than, as long as
\* or longer than the bytes replaced, the file holds the bytes of the
\* bytearray on which each data[offset:offset+length] = chunk was applied
\* (for the calls the function accepts: a file name, or in_place true).
C15_ReplaceChunkRefinement ==
    ((fout.ok \/ fout.err # "") /\ (fmode.named \/ fmode.in_place)) =>
        (fout.ok /\ fdata = fmodel)

\* ------------------------------------------------------------------------
\* Writing a tag to a file
\* ------------------------------------------------------------------------

\* the bytes of a file outside the region offset .. offset + length
Outside(data, offset, length) ==
    Slice(data, 1, offset) \o From(data, offset + length + 1)

\* C14: after Tag.write the file is the newly encoded tag followed by
\* exactly the bytes of the original file outside the tag region that was
\* detected (the whole original file when no tag was detected); a write
\* that raises leaves the file as it was, or without the region.
C14_WriteTouchesOnlyTagRegion ==
    tpc = "written" =>
        /\ wout.ok =>
              /\ wout.enc.ok
              /\ wout.data = wout.enc.val \o Outside(wfile, wout.offset, wout.length)
        /\ ~wout.ok =>
              wout.data \in {wfile, Outside(wfile, wout.offset, wout.length)}

\* ------------------------------------------------------------------------
\* Deferral of interrupts (SpecInterrupt).  Python runs a signal's handler
\* in the main thread between two of its steps.
\* ------------------------------------------------------------------------
Count(log, e) == Len(SelectSeq(log, LAMBDA x : x = e))

\* the other workbenches stand still
OnlyInterrupts ==
    /\ UNCHANGED cvars
    /\ UNCHANGED <<tpc, tfile, tres, thint, tenc, tres2, cframe, cversion, cconv, classes>>
    /\ UNCHANGED hvars
    /\ UNCHANGED kvars
    /\ UNCHANGED wvars
    /\ UNCHANGED fvars
    /\ UNCHANGED mvars

\* interrupted = False; s = signal.signal(signal.SIGINT, sigint_handler)
EnterBlock ==
    /\ ipc = "start"
    /\ interrupted' = FALSE
    /\ ihandler' = "sigint_handler"
    /\ ipc' = "block"
    /\ ilog' = Append(ilog, "enter")
    /\ OnlyInterrupts

\* one statement of the with block (of _replace_chunk, in replace_chunk)
BlockStatement ==
    /\ ipc = "block"
    /\ Count(ilog, "statement") < BlockLen
    /\ ilog' = Append(ilog, "statement")
    /\ UNCHANGED <<ipc, ihandler, interrupted>>
    /\ OnlyInterrupts

\* a statement of the block raises: the finally clause restores the
\* handler and the exception leaves the context manager
BlockRaises ==
    /\ ipc = "block"
    /\ Count(ilog, "statement") < BlockLen
    /\ ilog' = Append(ilog, "Error")
    /\ ihandler' = "default_int_handler"
    /\ ipc' = "failed"
    /\ UNCHANGED interrupted
    /\ OnlyInterrupts

\* the block is left: finally: signal.signal(signal.SIGINT, s)
LeaveBlock ==
    /\ ipc = "block"
    /\ Count(ilog, "statement") = BlockLen
    /\ ihandler' = "default_int_handler"
    /\ ipc' = "restored"
    /\ ilog' = Append(ilog, "leave")
    /\ UNCHANGED interrupted
    /\ OnlyInterrupts

\* if interrupted: raise KeyboardInterrupt()
RaiseDeferred ==
    /\ ipc = "restored"
    /\ ipc' = IF interrupted THEN "KeyboardInterrupt" ELSE "returned"
    /\ ilog' = IF interrupted THEN Append(ilog, "KeyboardInterrupt") ELSE ilog
    /\ UNCHANGED <<ihandler, interrupted>>
    /\ OnlyInterrupts

\* a SIGINT is delivered while the thread runs: the installed handler is
\* called; the default handler raises KeyboardInterrupt where the thread is
Sigint ==
    /\ ipc \in {"start", "block", "restored"}
    /\ Count(ilog, "SIGINT") < MaxSignals
    /\ IF ihandler = "sigint_handler"
       THEN /\ interrupted' = sigint_handler(interrupted)
            /\ ilog' = Append(ilog, "SIGINT")
            /\ UNCHANGED ipc
       ELSE /\ ilog' = Append(Append(ilog, "SIGINT"), "KeyboardInterrupt")
            /\ ipc' = "KeyboardInterrupt"
            /\ UNCHANGED interrupted
    /\ UNCHANGED ihandler
    /\ OnlyInterrupts

\* the steps of the thread
ThreadStep ==
    EnterBlock \/ BlockStatement \/ BlockRaises \/ LeaveBlock \/ RaiseDeferred

InterruptNext ==
    \/ EnterBlock
    \/ BlockStatement
    \/ BlockRaises
    \/ LeaveBlock
    \/ RaiseDeferred
    \/ Sigint

\* the interpreter keeps running the thread
SpecInterrupt == Init /\ [][InterruptNext]_vars /\ WF_vars(ThreadStep)

\* the log's entry k was made while the block was running
InBlockAt(k) ==
    \E e \in 1..(k - 1) :
        /\ ilog[e] = "enter"
        /\ \A j \in e..(k - 1) : ilog[j] \notin {"leave", "Error"}

\* a SIGINT has arrived while the block was running
SigintInBlock == \E k \in 1..Len(ilog) : ilog[k] = "SIGINT" /\ InBlockAt(k)

\* C16: a SIGINT that arrives while a suppress_interrupt block is running
\* does not interrupt the block: no KeyboardInterrupt is raised inside the
\* block, the statements after the signal run (all BlockLen of them,
\* unless one of them raises), and KeyboardInterrupt is raised when the
\* block has been left.
C16_InterruptDeferral ==
    /\ [](\A k \in 1..Len(ilog) : ilog[k] = "KeyboardInterrupt" => ~InBlockAt(k))
    /\ []((SigintInBlock /\ ipc = "KeyboardInterrupt") =>
            /\ Count(ilog, "statement") = BlockLen
            /\ ilog[Len(ilog)] = "KeyboardInterrupt"
            /\ ilog[Len(ilog) - 1] \in {"leave", "SIGINT"})
    /\ (SigintInBlock ~> (ipc = "KeyboardInterrupt" \/ ipc = "failed"))

\* the signal came between two statements of the block, the statements
\* after it ran, and KeyboardInterrupt was raised after the block
C16_Witness ==
    /\ ipc = "KeyboardInterrupt" /\ interrupted
    /\ ilog = <<"enter", "statement", "SIGINT">>
              \o [k \in 1..(BlockLen - 1) |-> "statement"]
              \o <<"leave", "KeyboardInterrupt">>

\* ------------------------------------------------------------------------
\* The tag as a mapping (SpecMapping)
\* ------------------------------------------------------------------------

\* the keys used: text frame classes that disallow duplicates, a class
\* that allows them, and a frame id as a string
MappingKeys ==
    {ClassKey("TIT2"), ClassKey("TPE1"), ClassKey("COMM"), StrKey(Id_TIT2)}

\* the values assigned: a single string and a tuple of strings
MappingValues == {StrVal(<<97>>), ListVal(<<<<97>>, <<98>>>>)}

OnlyMapping ==
    /\ UNCHANGED cvars
    /\ UNCHANGED <<tpc, tfile, tres, thint, tenc, tres2, cframe, cversion, cconv, classes>>
    /\ UNCHANGED hvars
    /\ UNCHANGED kvars
    /\ UNCHANGED wvars
    /\ UNCHANGED fvars
    /\ UNCHANGED ivars

\* tag[key] = value
SetItem ==
    /\ \E key \in MappingKeys, value \in MappingValues :
        /\ mlast' = [op |-> "set", key |-> key, value |-> value,
                     out |-> Tag_setitem(mtag, key, value)]
        /\ mtag' = mlast'.out.entries
    /\ OnlyMapping

\* del tag[key]
DelItem ==
    /\ \E key \in MappingKeys :
        /\ mlast' = [op |-> "del", key |-> key, value |-> NoneVal,
                     out |-> Tag_delitem(mtag, key)]
        /\ mtag' = mlast'.out.entries
    /\ OnlyMapping

MappingNext == SetItem \/ DelItem

SpecMapping == Init /\ [][MappingNext]_vars

\* the frames the tag holds under the frame id of class cls
HeldOf(cls) ==
    IF HasEntry(mtag, classes.ClassTable[cls].frameid)
    THEN EntryOf(mtag, classes.ClassTable[cls].frameid).frames ELSE <<>>

\* C17: a new tag has length 0; after any sequence of tag[F] = value and
\* del tag[F] on classes F that disallow duplicates, len(tag) is the
\* number of frames held, F holds exactly one frame after an assignment
\* (a second assignment replaces the first), a single string is stored
\* as a text list of one element, and after del tag[F] neither F nor its
\* frame id is in the tag.
C17_TagMappingState ==
    /\ mlast.op = "new" => Tag_len(mtag) = 0
    /\ Tag_len(mtag) = Len(Concat([k \in 1..Len(mtag) |-> mtag[k].frames]))
    /\ (mlast.key.kind = "class" /\ mlast.key.cls # ""
          /\ ~classes._allow_duplicates[mlast.key.cls]) =>
          /\ mlast.op = "set" =>
                /\ mlast.out.ok
                /\ Len(HeldOf(mlast.key.cls)) = 1
                /\ GetField(HeldOf(mlast.key.cls)[1], "text").l = extract_strs(mlast.value)
                /\ mlast.value.s # <<>> =>
                      Len(GetField(HeldOf(mlast.key.cls)[1], "text").l) = 1
                /\ Tag_contains(mtag, mlast.key) = OkM(mtag, TRUE)
          /\ (mlast.op = "del" /\ mlast.out.ok) =>
                /\ Tag_contains(mtag, mlast.key) = OkM(mtag, FALSE)
                /\ Tag_contains(mtag, StrKey(classes.ClassTable[mlast.key.cls].frameid))
                      = OkM(mtag, FALSE)

GenericClass(frameid) ==
    IF frameid[1] = 84 THEN "TextFrame"
    ELSE IF frameid[1] = 87 THEN "URLFrame"
    ELSE "UnknownFrame"

\* the frames of the tag read whose id is not registered and whose body
\* was decoded
UnknownRead ==
    IF tpc \in {"read", "padded", "encoded", "redecoded"} /\ tres.ok
    THEN {k \in 1..Len(tres.tag.frames) :
            /\ tres.tag.frames[k].frameid \notin classes.known_frame_ids
            /\ tres.tag.frames[k].cls # "ErrorFrame"}
    ELSE {}

\* C19: a frame whose id is not registered is decoded as a generic text
\* frame when the id starts with T, a generic URL frame when it starts with
\* W and opaque binary otherwise, and is marked unknown; encoding the tag
\* succeeds and decoding the result yields a frame of the same id, class
\* and field values.
C19_UnknownRoundTrip ==
    \A k \in UnknownRead :
        LET f == tres.tag.frames[k] IN
        /\ f.cls = GenericClass(f.frameid)
        /\ "unknown" \in f.flags
        /\ tpc = "encoded" => tenc.ok
        /\ tpc = "redecoded" =>
              /\ tres2.ok
              /\ \E j \in 1..Len(tres2.tag.frames) :
                    /\ tres2.tag.frames[j].frameid = f.frameid
                    /\ tres2.tag.frames[j].cls = f.cls
                    /\ tres2.tag.frames[j].vals = f.vals

\* ------------------------------------------------------------------------
\* Failures within one frame
\* ------------------------------------------------------------------------
\* C20: when a frame fails while its flags are interpreted or its fields
\* are decoded, the read of the tag succeeds, the frame is held as an error
\* frame with the frame's id, the body as it was read from the stream and
\* the condition that was raised, and the frame after it is read as usual.
C20_FrameFailureContained ==
    \A v \in {2, 3, 4} : \A b \in BadFrames(v) :
        (tpc = "read" /\ tfile = FailureWire(v, b)) =>
            /\ tres.ok
            /\ Len(tres.tag.frames) = 2
            /\ tres.tag.frames[1].cls = "ErrorFrame"
            /\ tres.tag.frames[1].frameid = ArtistId(v)
            /\ GetField(tres.tag.frames[1], "data").s = b[2]
            /\ tres.tag.frames[1].exc # ""
            /\ tres.tag.frames[2].cls \in {"TIT2", "TT2"}
            /\ GetField(tres.tag.frames[2], "text") = ListVal(<<<<97>>>>)

\* ------------------------------------------------------------------------
\* The end of the frame stream
\* ------------------------------------------------------------------------
\* the pattern of frame ids: [A-Z][A-Z0-9]{2,3}, a space being tolerated
\* as the fourth character
MatchesIdPattern(id) ==
    /\ Len(id) \in {3, 4}
    /\ IsUpper(id[1]) /\ IsUpperOrDigit(id[2]) /\ IsUpperOrDigit(id[3])
    /\ Len(id) = 4 => (IsUpperOrDigit(id[4]) \/ id[4] = 32)

\* C21: when the frame reader meets an id that does not match the pattern
\* of frame ids, the read succeeds with the frames read before that point,
\* and every frame of a tag that was read has an id matching the pattern.
C21_StreamEnd ==
    tpc = "read" =>
        /\ \A v \in {2, 3, 4} : \A t \in StreamTails(v) :
              (tfile = StreamEndWire(v, t)
                 /\ ~MatchesIdPattern(Slice(t, 1, IF v = 2 THEN 3 ELSE 4))) =>
                    /\ tres.ok
                    /\ Len(tres.tag.frames) = 1
                    /\ tres.tag.frames[1].frameid = TitleId(v)
                    /\ GetField(tres.tag.frames[1], "text") = ListVal(<<<<97>>>>)
        /\ tres.ok => \A k \in 1..Len(tres.tag.frames) :
              MatchesIdPattern(tres.tag.frames[k].frameid)

\* ------------------------------------------------------------------------
\* Header flags
\* ------------------------------------------------------------------------
\* C22: reading a version 2 header with an unknown flag bit (0x3F) or the
\* compression bit (0x40) set fails with TagError; reading a version 3 or 4
\* header with unknown flag bits set emits a warning and the read goes on.
C22_HeaderFlagPolicy ==
    (tpc = "read" /\ tfile \in HeaderFlagWires) =>
        /\ tfile[4] = 2 => (~tres.ok /\ tres.err = "TagError")
        /\ tfile[4] \in {3, 4} =>
              (tres.ok /\ twarn # <<>> /\ Len(tres.tag.frames) = 1)

\* ------------------------------------------------------------------------
\* The choice of a codec in _to_data
\* ------------------------------------------------------------------------
\* the codec enc represents every string of the text list
Fits(enc, texts) == \A k \in 1..Len(texts) : StrEncode(enc, texts[k]).ok

\* the body of a text frame written with the codec enc
TextBody(enc, texts) ==
    <<enc>> \o Concat([k \in 1..Len(texts) |-> StrEncode(enc, texts[k]).val \o Terminator(enc)])

\* C23: when no codec is selected or the selected codec cannot represent
\* the frame's strings, _to_data uses Latin-1 if it represents every
\* string, else UTF-16 if that does; the encoding byte written is that
\* codec's number, the frame's encoding field is that codec afterwards,
\* and when neither represents the strings the result is a ValueError.
C23_EncodingRetry ==
    tpc = "serialised" =>
        LET enc == EncodingOf(eframe.cls, eframe.vals)
            texts == GetField(eframe, "text").l
        IN (enc = -1 \/ ~Fits(enc, texts)) =>
              IF Fits(0, texts)
              THEN /\ eout.ok /\ eout.val = TextBody(0, texts)
                   /\ EncodingOf(eafter.cls, eafter.vals) = 0
              ELSE IF Fits(1, texts)
              THEN /\ eout.ok /\ eout.val = TextBody(1, texts)
                   /\ EncodingOf(eafter.cls, eafter.vals) = 1
              ELSE ~eout.ok /\ eout.err = "ValueError"

\* ------------------------------------------------------------------------
\* The merge of text frames
\* ------------------------------------------------------------------------
\* the encoding the frames have in common, -1 (unset) when they differ
CommonEncoding(g) ==
    IF \A k \in 1..Len(g) : EncodingOf(g[k].cls, g[k].vals) = EncodingOf(g[1].cls, g[1].vals)
    THEN EncodingOf(g[1].cls, g[1].vals)
    ELSE -1

\* C24: when a tag holds several text frames of one frame id, encode
\* writes a single frame of that id whose text list is the concatenation
\* of the text lists of all of them in the order the tag holds them; its
\* encoding is their common encoding, and is unset when they differ.
C24_TextFrameMerge ==
    Encoded =>
        \A id \in IdSet(tres.tag.frames) :
            LET g == Held(id) IN
            (Len(g) >= 2 /\ \A k \in 1..Len(g) :
                              g[k].cls = g[1].cls /\ IsSubclass(g[k].cls, "TextFrame")) =>
                  /\ Len(Written(id)) = 1
                  /\ Written(id)[1].frameid = id
                  /\ GetField(Written(id)[1], "text").l
                       = Concat([k \in 1..Len(g) |-> GetField(g[k], "text").l])
                  /\ EncodingOf(Written(id)[1].cls, Written(id)[1].vals) = CommonEncoding(g)

\* ------------------------------------------------------------------------
\* Frames that cannot be converted
\* ------------------------------------------------------------------------
\* encode warned that it skipped the frames of the id
SkipWarned(id) ==
    \E k \in 1..Len(benc.warnings) :
        benc.warnings[k] \in {Warning("incompatible", id), Warning("invalid", id)}

\* C25: encode completes when frames of the tag cannot be converted to the
\* tag's version; such a frame is dropped with a warning, and every frame
\* that does convert is written in its converted form, also when another
\* frame of its id was dropped.  (Text frames of one id are merged before
\* the conversion and are left to the merge.)
C25_ConversionPerFrame ==
    tpc = "built" =>
        /\ benc.ok
        /\ \A k \in 1..Len(btag.frames) :
              LET f == btag.frames[k]
                  c == _to_version(f, btag.version)
              IN IF ~c.ok THEN SkipWarned(f.frameid)
                 ELSE (Len(WithId(btag.frames, f.frameid)) = 1
                         \/ ~IsSubclass(f.cls, "TextFrame")) =>
                        \E j \in 1..Len(benc.frames) :
                            /\ benc.frames[j].cls = c.frame.cls
                            /\ benc.frames[j].vals = c.frame.vals

\* ------------------------------------------------------------------------
\* The v2.2 siblings of the frame classes
\* ------------------------------------------------------------------------
\* the 3-character frame classes whose first base class is a frame class of
\* version 3 or 4
SiblingsOf(base) ==
    {o \in classes.known_frames :
        /\ Len(classes.ClassTable[o].frameid) = 3
        /\ classes.ClassTable[o].base = base
        /\ IsSubclass(base, "Frame")
        /\ _in_version(base, {3, 4})}

\* C26: _register_frames runs over the frame classes of id3.py without
\* its assertion failing; afterwards every 3-character class whose first
\* base class is a class of version 3 or 4 is that class's _v2_frame, no
\* 4-character class has two such subclasses, and no operation of the
\* program changes the class attributes.
C26_SiblingLinkage ==
    /\ RegistrationAsserts = {}
    /\ \A base \in classes.known_frames :
          /\ \A o \in SiblingsOf(base) : classes._v2_frame[base] = o
          /\ Cardinality(SiblingsOf(base)) <= 1
    /\ classes = Imported

\* ------------------------------------------------------------------------
\* Unsynchronisation of version 4 frames
\* ------------------------------------------------------------------------
\* the frames with the flag "unsynchronised" each
Unsynchronised(frames) ==
    [k \in 1..Len(frames) |-> [frames[k] EXCEPT !.flags = @ \cup {"unsynchronised"}]]

\* two frames of one class with the same field values; the text encoding,
\* which the encoder chooses when the frame has none, is left aside
SameFields(a, b) ==
    /\ a.cls = b.cls
    /\ Len(a.vals) = Len(b.vals)
    /\ \A k \in 1..Len(a.vals) :
          classes._framespec[a.cls][k].n # "encoding" => a.vals[k] = b.vals[k]

\* encode has written a version 4 tag whose unsynchronisation flag is set
EncodedUnsync24 ==
    /\ tpc \in {"encoded", "redecoded"}
    /\ tres.tag.version = 4
    /\ "unsynchronisation" \in tres.tag.flags
    /\ tenc.ok
    /\ tenc.frames # <<>>

\* C27: in the encoding of a version 4 tag whose unsynchronisation flag is
\* set every frame is written with the unsynchronised format flag and a
\* byte-stuffed body; a version 4 frame read with that flag has the
\* stuffing undone before its fields are decoded; the field values of such
\* a tag's frames are the same after encode and decode.
C27_FrameUnsync24 ==
    /\ EncodedUnsync24 =>
          With(encode_frames(4, Unsynchronised(tenc.frames)), LAMBDA e :
              e.ok /\ Slice(tenc.val, 11, 10 + Len(e.val)) = e.val)
    /\ (tpc = "read" /\ tfile \in UnsyncFrameWires) =>
          /\ tres.ok
          /\ Len(tres.tag.frames) = 1
          /\ tres.tag.frames[1].vals
               = _from_data("TIT2", Id_TIT2, Body_Unstuffed, OkI({}, -1, <<>>)).frame.vals
    /\ (EncodedUnsync24 /\ tpc = "redecoded") =>
          /\ tres2.ok
          /\ Len(tres2.tag.frames) = Len(tenc.frames)
          /\ \A k \in 1..Len(tenc.frames) :
                SameFields(tres2.tag.frames[k], tenc.frames[k])

\* ------------------------------------------------------------------------
\* The status flags of a frame
\* ------------------------------------------------------------------------
\* C28: a frame with any subset of the status flags discard_on_tag_alter,
\* discard_on_file_alter and read_only, written by the encoder of version
\* 3 or 4, is read back by the decoder of that version as a frame of its
\* class (no ErrorFrame) with exactly that subset of the status flags.
C28_StatusFlagsRoundTrip ==
    (tpc \in {"built", "rebuilt"} /\ btag \in StatusTags) =>
        /\ benc.ok
        /\ tpc = "rebuilt" =>
              /\ bres.ok
              /\ Len(bres.tag.frames) = 1
              /\ bres.tag.frames[1].cls = btag.frames[1].cls
              /\ bres.tag.frames[1].flags \cap StatusFlags = btag.frames[1].flags

\* ------------------------------------------------------------------------
\* Deferred interrupts are delivered
\* ------------------------------------------------------------------------
\* the block of suppress_interrupt has ended, by its last statement or by
\* an exception
BlockEnded == \E k \in 1..Len(ilog) : ilog[k] \in {"leave", "Error"}

\* C29: a SIGINT that arrives while a suppress_interrupt block is running
\* is delivered as KeyboardInterrupt when the block has ended, whether the
\* block ends by its last statement or by an exception, and once the block
\* has ended the SIGINT handler that was installed before it is installed
\* again.
C29_NoInterruptLost ==
    /\ (SigintInBlock ~> (ipc = "KeyboardInterrupt"))
    /\ [](BlockEnded => ihandler = "default_int_handler")

\* ------------------------------------------------------------------------
\* Reading stays inside the tag
\* ------------------------------------------------------------------------
\* the file holds a tag header read_tag accepts
HasHeader(file) ==
    /\ Len(file) >= 10
    /\ Slice(file, 1, 3) = <<73, 68, 51>>
    /\ file[4] \in {2, 3, 4} /\ file[5] = 0
    /\ Syncsafe_decode(Slice(file, 7, 10)).ok

\* offset + size of the tag the file starts with: the number of bytes of
\* the file that belong to the tag
TagEnd(file) ==
    10 + Syncsafe_decode(Slice(file, 7, 10)).num
    + (IF file[4] = 4 /\ Has(file[6], _TAG24_FOOTER) THEN 10 ELSE 0)

\* C30: reading a tag that starts at offset o with total size n consumes
\* no byte of the file at or beyond o + n, and adds no frame whose bytes
\* reach beyond o + n, for plain tags and for unsynchronised tags of
\* version 2 and 3, also when the tag has no padding and its last frame
\* body ends in 0xFF, and when a frame declares a size that overruns the
\* end of the tag.
C30_ReadsInsideTag ==
    (tpc = "read" /\ HasHeader(tfile)) =>
        /\ tres.pos - 1 <= TagEnd(tfile)
        /\ (tfile \in OversizeWires /\ tres.ok) => tres.tag.frames = <<>>
====
